---------------------------- MODULE Spec2Model ----------------------------
(***************************************************************************)
(* A model of the drama-platform backend: the Redis wrapper, the auth      *)
(* service (login throttling, sessions, tokens), the category service,     *)
(* the drama list service and the recommendation / ranking scorers.        *)
(* Every handler is one action; time is a clock in seconds advanced by     *)
(* Tick; Redis is a key/value map with per-key expiry.                     *)
(***************************************************************************)
EXTENDS Integers, Sequences, FiniteSets, TLC

VARIABLES
    now,          \* wall clock, seconds
    isConnected,  \* RedisConnection.isConnected (client is non-null once connected)
    cache,        \* the Redis keyspace: key -> [val, exp]
    users,        \* User collection: userId -> [email, password, status]
    sessions,     \* UserSession collection, in creation order
    nextTokenId,  \* source of fresh ObjectIds for refresh-token tokenId
    lastOp,       \* the last handler that ran, with its inputs and its result
    watched,      \* the email whose login history is recorded
    failHist,     \* history: times of watched's latest bad-credential failures (cache up, no success since)
    sinceOk,      \* history: watched's bad-credential failures since its last successful login
    sinceClear,   \* history: as sinceOk, since its last successful login made with the cache up
    lockedAt,     \* history: when watched's counter last reached five, -1 before that
    issued,       \* history: the (access, refresh) token pairs handed out
    revoked,      \* history: refresh tokens that existed when their user logged out everywhere
    loggedOut,    \* history: access tokens whose login session was logged out
    categories,   \* Category collection: a set of documents
    nextCatId,    \* source of fresh category ids
    dramas,       \* Drama collection: dramaId -> document
    listCalls,    \* history: the watched list request's latest call and latest miss
    preferences,  \* UserPreference collection: userId -> document
    preferenceCalls, \* history: number of updatePreferenceFromDrama calls made
    inFlight,     \* requests between two of their awaits: a sequence of records
    viewCalls,    \* history: dramaId -> number of completed incrementViewCount calls
    limiter,      \* history: isAllowed calls started, and the requests let through
    refreshed,    \* history: the refresh tokens presented by the refreshToken calls that succeeded
    ended         \* history: the sessions that held the token of a completed logout when it started

vars == <<now, isConnected, cache, users, sessions, nextTokenId, lastOp,
          watched, failHist, sinceOk, sinceClear, lockedAt, issued, revoked, loggedOut,
          categories, nextCatId, dramas, listCalls, preferences, preferenceCalls,
          inFlight, viewCalls, limiter, refreshed, ended>>

authVars == <<users, sessions, nextTokenId, watched, failHist, sinceOk, sinceClear, lockedAt, issued, revoked, loggedOut,
              refreshed, ended>>

dramaVars == <<dramas, listCalls>>

contentVars == <<categories, nextCatId, dramaVars>>

preferenceVars == <<preferences, preferenceCalls>>

flightVars == <<inFlight, viewCalls, limiter>>

Nil == [nil |-> TRUE]

(***************************************************************************)
(* Bounds of the model.                                                    *)
(***************************************************************************)
TickStep == 450      \* seconds the clock advances per Tick
MaxTime == 1000      \* the clock stops here
MaxTokens == 2       \* refresh tokens ever issued (a login or a refresh issues one)
MaxCategories == 3   \* category ids ever given out
MaxViews == 2        \* a drama's view count stops here
ListTickStep == 900  \* seconds per tick of the list specification's clock
ListMaxTime == 1800  \* that clock stops here
LongIdLength == 240  \* characters of the long dramaId a request may carry
MaxTagCount == 3     \* tags of a seed drama
MaxCastCount == 2    \* cast members of a seed drama
MaxPreferenceCalls == 3  \* updatePreferenceFromDrama calls made
SeedDramaCount == 10 \* dramas the user of the preference specification liked before
MaxInFlight == 2     \* requests between two of their awaits
MaxQueryLength == 2  \* characters of a search query
MaxTrendDays == 1    \* days the clock of the trends specification advances
LimiterMax == 2      \* maxRequests of the rate limiter
MaxLimiterCalls == 3 \* isAllowed calls made
MaxStepTokens == 3   \* refresh tokens ever issued where refreshes overlap
MaxAttemptCalls == 5 \* login calls that fail on the credentials where logins overlap
MaxTitleLength == 3  \* characters of a title that is searched

(***************************************************************************)
(* Program constants.                                                      *)
(***************************************************************************)
MAX_LOGIN_ATTEMPTS == 5
LOCKOUT_DURATION == 15 * 60
BLACKLIST_TTL == 24 * 60 * 60
SESSION_TTL == 30 * 24 * 60 * 60
ACCESS_TOKEN_TTL == 7 * 24 * 60 * 60
REFRESH_TOKEN_TTL == 30 * 24 * 60 * 60

(***************************************************************************)
(* Decimal strings, as Number.prototype.toString and parseInt see them:    *)
(* a string of digits is a sequence of digits.                             *)
(***************************************************************************)
RECURSIVE NumToString(_)
NumToString(n) == IF n < 10 THEN <<n>> ELSE Append(NumToString(n \div 10), n % 10)

RECURSIVE ParseInt(_)
ParseInt(s) == IF Len(s) = 0 THEN 0
               ELSE 10 * ParseInt(SubSeq(s, 1, Len(s) - 1)) + s[Len(s)]

(***************************************************************************)
(* RedisConnection: isReady, get, set (setEx), del, exists.                *)
(***************************************************************************)
IsReady == isConnected

CacheLive(c, k) == k \in DOMAIN c /\ now < c[k].exp

CacheGet(c, k) == IF CacheLive(c, k) THEN c[k].val ELSE Nil

CacheSet(c, k, v, ttl) ==
    [x \in (DOMAIN c) \cup {k} |-> IF x = k THEN [val |-> v, exp |-> now + ttl] ELSE c[x]]

CacheDel(c, k) == [x \in (DOMAIN c) \ {k} |-> c[x]]

CacheExists(c, k) == CacheLive(c, k)

\* Redis drops a key when its time to live has elapsed.
Expire(c, t) == [x \in {k \in DOMAIN c : t < c[k].exp} |-> c[x]]

EmptyCache == [x \in {} |-> Nil]

(***************************************************************************)
(* Users and tokens.                                                       *)
(***************************************************************************)
UserIds == {1, 2, 3}
Passwords == {"right", "wrong"}

InitUsers ==
    [u \in UserIds |->
        CASE u = 1 -> [email |-> "a@x", password |-> "right", status |-> "active"]
          [] u = 2 -> [email |-> "b@x", password |-> "right", status |-> "banned"]
          [] u = 3 -> [email |-> "c@x", password |-> "right", status |-> "active"]]

NoUser == 0

\* User.findByEmailWithPassword: the user id, or NoUser
FindByEmail(e) ==
    IF \E u \in UserIds : users[u].email = e
    THEN CHOOSE u \in UserIds : users[u].email = e
    ELSE NoUser

\* bcrypt.compare against the stored hash
ComparePassword(u, p) == users[u].password = p

\* jwt.sign with JWT_SECRET: the payload and the issue time decide the token
GenerateAuthToken(u) == [kind |-> "access", userId |-> u, iat |-> now]

\* jwt.sign with JWT_REFRESH_SECRET: a fresh tokenId in every token
GenerateRefreshToken(u) ==
    [kind |-> "refresh", userId |-> u, tokenId |-> nextTokenId, iat |-> now]

\* jwt.verify: right secret (kind) and not expired
JwtVerify(tok, kind, ttl) == tok.kind = kind /\ now < tok.iat + ttl

FailedLoginKey(e) == [ns |-> "failed_login:", email |-> e]
BlacklistKey(tok) == [ns |-> "blacklist:token:", token |-> tok]

(***************************************************************************)
(* AuthService: the login-attempt counter.                                 *)
(***************************************************************************)
LoginAttemptsExceeded_OffByOne(e) ==
    /\ IsReady
    /\ CacheLive(cache, FailedLoginKey(e))
    /\ LET attempts == CacheGet(cache, FailedLoginKey(e))
       IN  /\ Len(attempts) > 0
           /\ ParseInt(attempts) > MAX_LOGIN_ATTEMPTS

\* checkLoginAttempts throws
LoginAttemptsExceeded(e) ==
    /\ IsReady
    /\ CacheLive(cache, FailedLoginKey(e))
    /\ LET attempts == CacheGet(cache, FailedLoginKey(e))
       IN  /\ Len(attempts) > 0
           /\ ParseInt(attempts) >= MAX_LOGIN_ATTEMPTS

\* a counter written with the time to live of a blacklist entry
RecordFailedLogin_DayLong(e) ==
    IF ~IsReady THEN cache
    ELSE LET current == CacheGet(cache, FailedLoginKey(e))
             attempts == IF CacheLive(cache, FailedLoginKey(e)) /\ Len(current) > 0
                         THEN ParseInt(current) + 1 ELSE 1
         IN  CacheSet(cache, FailedLoginKey(e), NumToString(attempts), BLACKLIST_TTL)

RecordFailedLogin(e) ==
    IF ~IsReady THEN cache
    ELSE LET current == CacheGet(cache, FailedLoginKey(e))
             attempts == IF CacheLive(cache, FailedLoginKey(e)) /\ Len(current) > 0
                         THEN ParseInt(current) + 1 ELSE 1
         IN  CacheSet(cache, FailedLoginKey(e), NumToString(attempts), LOCKOUT_DURATION)

ClearFailedLogins_Skipped(e) == cache

ClearFailedLogins(e) ==
    IF ~IsReady THEN cache ELSE CacheDel(cache, FailedLoginKey(e))

\* createUserSession
NewSession(u, rt) ==
    [userId |-> u, refreshToken |-> rt, isActive |-> TRUE, expiresAt |-> now + SESSION_TTL]

\* the outcome of login(email, password)
LoginOutcome(e, p) ==
    LET u == FindByEmail(e)
    IN  IF LoginAttemptsExceeded(e) THEN "locked"
        ELSE IF u = NoUser THEN "badcred"
        ELSE IF users[u].status # "active" THEN "disabled"
        ELSE IF ~ComparePassword(u, p) THEN "badcred"
        ELSE "ok"

\* history: watched's five latest login calls that failed on the credentials were
\* made with the cache up, with no successful login since, all less than the
\* lockout duration ago
FiveRecentFailures ==
    /\ Len(failHist) = MAX_LOGIN_ATTEMPTS
    /\ now - failHist[1] < LOCKOUT_DURATION

Last5(s) == IF Len(s) > MAX_LOGIN_ATTEMPTS THEN SubSeq(s, Len(s) - MAX_LOGIN_ATTEMPTS + 1, Len(s)) ELSE s

Login(e, p) ==
    LET out == LoginOutcome(e, p)
        u == FindByEmail(e)
        at == GenerateAuthToken(u)
        rt == GenerateRefreshToken(u)
    IN  /\ out = "ok" => nextTokenId <= MaxTokens
        /\ cache' = CASE out = "badcred" -> RecordFailedLogin(e)
                      [] out = "ok" -> ClearFailedLogins(e)
                      [] OTHER -> cache
        /\ sessions' = IF out = "ok" THEN Append(sessions, NewSession(u, rt)) ELSE sessions
        /\ nextTokenId' = IF out = "ok" THEN nextTokenId + 1 ELSE nextTokenId
        /\ issued' = IF out = "ok" THEN issued \cup {[access |-> at, refresh |-> rt]} ELSE issued
        /\ failHist' = CASE e # watched -> failHist
                          [] out = "ok" -> <<>>
                          [] out = "badcred" /\ IsReady -> Last5(Append(failHist, now))
                          [] out = "badcred" /\ ~IsReady -> <<>>
                          [] OTHER -> failHist
        /\ sinceOk' = CASE e # watched -> sinceOk
                         [] out = "ok" -> 0
                         [] out = "badcred" /\ sinceOk < MAX_LOGIN_ATTEMPTS -> sinceOk + 1
                         [] OTHER -> sinceOk
        /\ sinceClear' = CASE e # watched -> sinceClear
                            [] out = "ok" /\ IsReady -> 0
                            [] out = "badcred" /\ sinceClear < MAX_LOGIN_ATTEMPTS -> sinceClear + 1
                            [] OTHER -> sinceClear
        /\ lockedAt' = IF /\ e = watched /\ out = "badcred" /\ IsReady
                           /\ ParseInt(RecordFailedLogin(e)[FailedLoginKey(e)].val)
                                  >= MAX_LOGIN_ATTEMPTS
                        THEN now ELSE lockedAt
        /\ lastOp' = [op |-> "login", email |-> e, password |-> p, outcome |-> out,
                      ready |-> IsReady,
                      counter |-> IF FailedLoginKey(e) \in DOMAIN cache
                                  THEN cache[FailedLoginKey(e)] ELSE Nil,
                      hadFailures |-> CacheLive(cache, FailedLoginKey(e)),
                      fiveRecent |-> e = watched /\ FiveRecentFailures,
                      fiveSinceOk |-> e = watched /\ sinceOk >= MAX_LOGIN_ATTEMPTS,
                      fiveSinceClear |-> e = watched /\ sinceClear >= MAX_LOGIN_ATTEMPTS]
        /\ UNCHANGED <<flightVars, preferenceVars, contentVars, now, isConnected, users, watched, revoked, loggedOut, refreshed, ended>>

(***************************************************************************)
(* AuthService: refreshToken, logout, logoutAllDevices, verifyAccessToken. *)
(***************************************************************************)
\* UserSessionModel.findOne({refreshToken, isActive: true, expiresAt > now}): its index, or 0
FindActiveSession(tok) ==
    LET hits == {i \in 1..Len(sessions) :
                    /\ sessions[i].refreshToken = tok
                    /\ sessions[i].isActive
                    /\ sessions[i].expiresAt > now}
    IN  IF hits = {} THEN 0 ELSE CHOOSE i \in hits : \A j \in hits : i <= j

RefreshOutcome(tok) ==
    IF ~JwtVerify(tok, "refresh", REFRESH_TOKEN_TTL) THEN "failed"
    ELSE IF FindActiveSession(tok) = 0 THEN "failed"
    ELSE IF tok.userId \notin UserIds \/ users[tok.userId].status # "active" THEN "failed"
    ELSE "ok"

RefreshToken(tok) ==
    LET out == RefreshOutcome(tok)
        i == FindActiveSession(tok)
        at == GenerateAuthToken(tok.userId)
        rt == GenerateRefreshToken(tok.userId)
    IN  /\ out = "ok" => nextTokenId <= MaxTokens
        /\ sessions' = IF out = "ok"
                       THEN [sessions EXCEPT ![i].refreshToken = rt,
                                             ![i].expiresAt = now + SESSION_TTL]
                       ELSE sessions
        /\ nextTokenId' = IF out = "ok" THEN nextTokenId + 1 ELSE nextTokenId
        /\ issued' = IF out = "ok" THEN issued \cup {[access |-> at, refresh |-> rt]} ELSE issued
        /\ lastOp' = [op |-> "refreshToken", token |-> tok, outcome |-> out,
                      wasRevoked |-> tok \in revoked]
        /\ UNCHANGED <<flightVars, preferenceVars, contentVars, now, isConnected, cache, users, watched, failHist, sinceOk, sinceClear, lockedAt,
                       revoked, loggedOut, refreshed, ended>>

\* UserSessionModel.updateOne({refreshToken}, {isActive: false}): the first match
DeactivateSession(tok) ==
    LET hits == {i \in 1..Len(sessions) : sessions[i].refreshToken = tok}
    IN  IF hits = {} THEN sessions
        ELSE [sessions EXCEPT ![CHOOSE i \in hits : \A j \in hits : i <= j].isActive = FALSE]

\* the sessions that hold the token
SessionsHolding(tok) == {i \in 1..Len(sessions) : sessions[i].refreshToken = tok}

Logout(tok) ==
    /\ cache' = IF IsReady
                THEN CacheSet(cache, BlacklistKey(tok), "blacklisted", BLACKLIST_TTL)
                ELSE cache
    /\ sessions' = DeactivateSession(tok)
    /\ loggedOut' = IF IsReady /\ (\E i \in 1..Len(sessions) : sessions[i].refreshToken = tok)
                    THEN loggedOut \cup {p.access : p \in {q \in issued : q.refresh = tok}}
                    ELSE loggedOut
    /\ ended' = ended \cup SessionsHolding(tok)
    /\ lastOp' = [op |-> "logout", token |-> tok, ready |-> IsReady]
    /\ UNCHANGED <<flightVars, preferenceVars, contentVars, now, isConnected, users, nextTokenId, watched, failHist, sinceOk, sinceClear, lockedAt,
                   issued, revoked, refreshed>>

ClearUserSessions_FirstOnly(u) ==
    LET hits == {i \in 1..Len(sessions) : sessions[i].userId = u /\ sessions[i].isActive}
    IN  IF hits = {} THEN sessions
        ELSE [sessions EXCEPT ![CHOOSE i \in hits : \A j \in hits : i <= j].isActive = FALSE]

\* UserSessionSchema.statics.clearUserSessions: updateMany({userId, isActive: true}, {isActive: false})
ClearUserSessions(u) ==
    [i \in 1..Len(sessions) |->
        IF sessions[i].userId = u /\ sessions[i].isActive
        THEN [sessions[i] EXCEPT !.isActive = FALSE]
        ELSE sessions[i]]

LogoutAllDevices(u) ==
    /\ sessions' = ClearUserSessions(u)
    /\ revoked' = revoked \cup {p.refresh : p \in {q \in issued : q.refresh.userId = u}}
    /\ lastOp' = [op |-> "logoutAllDevices", userId |-> u]
    /\ UNCHANGED <<flightVars, preferenceVars, contentVars, now, isConnected, cache, users, nextTokenId, watched, failHist, sinceOk,
                   sinceClear, lockedAt, issued, loggedOut, refreshed, ended>>

\* verifyAccessToken: the user, or NoUser (null)
VerifyResult(tok) ==
    IF IsReady /\ CacheExists(cache, BlacklistKey(tok)) THEN NoUser
    ELSE IF ~JwtVerify(tok, "access", ACCESS_TOKEN_TTL) THEN NoUser
    ELSE IF tok.userId \notin UserIds \/ users[tok.userId].status # "active" THEN NoUser
    ELSE tok.userId

VerifyAccessToken(tok) ==
    /\ lastOp' = [op |-> "verifyAccessToken", token |-> tok, result |-> VerifyResult(tok),
                  ready |-> IsReady, wasLoggedOut |-> tok \in loggedOut]
    /\ UNCHANGED <<flightVars, preferenceVars, contentVars, now, isConnected, cache, authVars>>

(***************************************************************************)
(* The environment: the clock, and the Redis client's connect / error      *)
(* events.                                                                 *)
(***************************************************************************)
Tick ==
    /\ now + TickStep <= MaxTime
    /\ now' = now + TickStep
    /\ cache' = Expire(cache, now + TickStep)
    /\ lastOp' = [op |-> "tick"]
    /\ UNCHANGED <<flightVars, preferenceVars, contentVars, isConnected, authVars>>

RedisDown ==
    /\ isConnected
    /\ isConnected' = FALSE
    /\ lastOp' = [op |-> "redisDown"]
    /\ UNCHANGED <<flightVars, preferenceVars, contentVars, now, cache, authVars>>

RedisUp ==
    /\ ~isConnected
    /\ isConnected' = TRUE
    /\ lastOp' = [op |-> "redisUp"]
    /\ UNCHANGED <<flightVars, preferenceVars, contentVars, now, cache, authVars>>

RefreshTokens == {p.refresh : p \in issued}
AccessTokens == {p.access : p \in issued}

(***************************************************************************)
(* JSON: JSON.stringify renders an ObjectId and a Date as strings, and     *)
(* JSON.parse gives those strings back, not the ObjectId or the Date.      *)
(***************************************************************************)
ObjectId(n) == [type |-> "ObjectId", v |-> n]
DateOf(t) == [type |-> "Date", v |-> t]
JsonString(x) == [type |-> "string", text |-> x]

\* JSON.stringify of an ObjectId, a Date or a string: the first two become the
\* string of their rendering, a string stays the string it is
StringifyValue(x) == IF x.type = "string" THEN x ELSE JsonString(x)

(***************************************************************************)
(* Categories: the collection, CategoryService and CategoryController.     *)
(***************************************************************************)
CategoryNames == {"action", "comedy", "romance"}
SortOrders == {0, 1}

\* the collation order of the names
NameRank(n) == CASE n = "action" -> 1 [] n = "comedy" -> 2 [] n = "romance" -> 3

CACHE_TTL_CATEGORY == 3600
ACTIVE_CATEGORIES == [ns |-> "categories:active"]
ALL_CATEGORIES == [ns |-> "categories:all"]
CATEGORY_STATS == [ns |-> "categories:stats"]
CategoryCacheKeys == {ACTIVE_CATEGORIES, ALL_CATEGORIES, CATEGORY_STATS}

\* .sort({ sortOrder: 1, name: 1 })
CategoryBefore(a, b) ==
    \/ a.sortOrder < b.sortOrder
    \/ a.sortOrder = b.sortOrder /\ NameRank(a.name) < NameRank(b.name)
    \/ a.sortOrder = b.sortOrder /\ a.name = b.name /\ a.id < b.id

RECURSIVE SortCategories(_)
SortCategories(S) ==
    IF S = {} THEN <<>>
    ELSE LET first == CHOOSE a \in S : \A b \in S \ {a} : CategoryBefore(a, b)
         IN  <<first>> \o SortCategories(S \ {first})

\* a lean category document, and its JSON
CategoryDoc(c) == [_id |-> ObjectId(c.id), name |-> c.name, isActive |-> c.isActive,
                   sortOrder |-> c.sortOrder]
StringifyCategory(doc) == [doc EXCEPT !._id = StringifyValue(@)]
StringifyCategories(docs) == [i \in 1..Len(docs) |-> StringifyCategory(docs[i])]
CategoryDocs(S) == LET sorted == SortCategories(S)
                   IN  [i \in 1..Len(sorted) |-> CategoryDoc(sorted[i])]

FindCategory(id) == {c \in categories : c.id = id}

\* Drama.countDocuments({ category: name })
DramaCountOf(name) == Cardinality({d \in DOMAIN dramas : dramas[d].category = name})

\* CategoryService.clearCache
ClearCategoryCache(c) ==
    IF ~IsReady THEN c
    ELSE CacheDel(CacheDel(CacheDel(c, ACTIVE_CATEGORIES), ALL_CATEGORIES), CATEGORY_STATS)

\* a collection without the index
DuplicateName_Never(name, exceptId) == FALSE

\* the unique index on name rejects the write (error code 11000)
DuplicateName(name, exceptId) == \E c \in categories : c.name = name /\ c.id # exceptId

\* the cached read shared by getActiveCategories and getAllCategories
CategoryRead(op, key, S) ==
    LET hit == IsReady /\ CacheLive(cache, key)
        fresh == CategoryDocs(S)
    IN  /\ cache' = IF ~hit /\ IsReady
                    THEN CacheSet(cache, key, StringifyCategories(fresh), CACHE_TTL_CATEGORY)
                    ELSE cache
        /\ lastOp' = [op |-> op, status |-> 200, fromCache |-> hit,
                      body |-> IF hit THEN CacheGet(cache, key)
                               ELSE StringifyCategories(fresh)]
        /\ UNCHANGED <<flightVars, preferenceVars, now, isConnected, authVars, contentVars>>

\* `if (cached)` holds for every stored value: an empty list is stored as "[]"
GetActiveCategories ==
    CategoryRead("getActiveCategories", ACTIVE_CATEGORIES, {c \in categories : c.isActive})

GetAllCategories == CategoryRead("getAllCategories", ALL_CATEGORIES, categories)

CreateCategory(name, sortOrder, isActive) ==
    LET dup == DuplicateName(name, 0)
    IN  /\ nextCatId <= MaxCategories
        /\ categories' = IF dup THEN categories
                         ELSE categories \cup {[id |-> nextCatId, name |-> name,
                                                isActive |-> isActive, sortOrder |-> sortOrder]}
        /\ nextCatId' = IF dup THEN nextCatId ELSE nextCatId + 1
        /\ cache' = IF dup THEN cache ELSE ClearCategoryCache(cache)
        /\ lastOp' = [op |-> "createCategory", name |-> name,
                      status |-> IF dup THEN 409 ELSE 201]
        /\ UNCHANGED <<flightVars, preferenceVars, now, isConnected, authVars, dramaVars>>

\* updateData holds the fields the request gave: name and/or isActive and/or sortOrder
UpdateCategory(id, updateData) ==
    LET found == FindCategory(id)
        old == CHOOSE c \in found : TRUE
        dup == found # {} /\ "name" \in DOMAIN updateData /\ DuplicateName(updateData.name, id)
        new == [f \in DOMAIN old |-> IF f \in DOMAIN updateData THEN updateData[f] ELSE old[f]]
        ok == found # {} /\ ~dup
    IN  /\ categories' = IF ok THEN (categories \ found) \cup {new} ELSE categories
        /\ cache' = IF ok THEN ClearCategoryCache(cache) ELSE cache
        /\ lastOp' = [op |-> "updateCategory", id |-> id,
                      status |-> IF found = {} THEN 404 ELSE IF dup THEN 409 ELSE 200]
        /\ UNCHANGED <<flightVars, preferenceVars, now, isConnected, authVars, nextCatId, dramaVars>>

\* CategorySchema.pre('deleteOne'): the delete is refused while a drama uses the name
DeleteRefused(c) == DramaCountOf(c.name) > 0

\* the status CategoryController.deleteCategory answers with
DeleteStatus(id) ==
    LET found == FindCategory(id)
    IN  IF found = {} THEN 404
        ELSE IF DeleteRefused(CHOOSE c \in found : TRUE) THEN 500
        ELSE 200

DeleteCategory(id) ==
    LET found == FindCategory(id)
        status == DeleteStatus(id)
    IN  /\ categories' = IF status = 200 THEN categories \ found ELSE categories
        /\ cache' = IF status = 200 THEN ClearCategoryCache(cache) ELSE cache
        /\ lastOp' = [op |-> "deleteCategory", id |-> id, status |-> status,
                      referenced |-> found # {} /\ DeleteRefused(CHOOSE c \in found : TRUE),
                      before |-> [categories |-> categories, dramas |-> dramas,
                                  cache |-> cache]]
        /\ UNCHANGED <<flightVars, preferenceVars, now, isConnected, authVars, nextCatId, dramaVars>>

ToggleCategoryStatus(id) ==
    LET found == FindCategory(id)
        old == CHOOSE c \in found : TRUE
    IN  /\ categories' = IF found = {} THEN categories
                         ELSE (categories \ found) \cup {[old EXCEPT !.isActive = ~@]}
        /\ cache' = IF found = {} THEN cache ELSE ClearCategoryCache(cache)
        /\ lastOp' = [op |-> "toggleCategoryStatus", id |-> id,
                      status |-> IF found = {} THEN 404 ELSE 200]
        /\ UNCHANGED <<flightVars, preferenceVars, now, isConnected, authVars, nextCatId, dramaVars>>

\* bulkWrite of one updateOne per entry; here one entry
UpdateCategorySortOrder(id, sortOrder) ==
    /\ categories' = {IF c.id = id THEN [c EXCEPT !.sortOrder = sortOrder] ELSE c : c \in categories}
    /\ cache' = ClearCategoryCache(cache)
    /\ lastOp' = [op |-> "updateCategorySortOrder", id |-> id, status |-> 200]
    /\ UNCHANGED <<flightVars, preferenceVars, now, isConnected, authVars, nextCatId, dramaVars>>

CategoryIds == 1..MaxCategories

\* the request bodies tried for an update
UpdateDatas == [{"name"} -> CategoryNames] \cup [{"isActive"} -> {FALSE}]

(***************************************************************************)
(* Dramas: the collection.  Ratings are in tenths (85 is 8.5), dates are   *)
(* seconds on the model's clock.  Only the view count and updatedAt of a   *)
(* drama ever change: no handler writes any other field.                   *)
(***************************************************************************)
DramaIds == {1, 2, 3}
DAY == 24 * 60 * 60

FixtureDramas ==
    [d \in DramaIds |->
        CASE d = 1 -> [category |-> "romance", tags |-> {"sweet", "ceo"}, cast |-> {"ann"},
                       rating |-> 85, viewCount |-> 0, commentCount |-> 1,
                       favoriteCount |-> 0, isHot |-> TRUE, isNewDrama |-> FALSE,
                       releaseDate |-> 0 - 40 * DAY,
                       createdAt |-> 0 - 3 * DAY, updatedAt |-> 0 - 2 * DAY]
          [] d = 2 -> [category |-> "action", tags |-> {"fight"}, cast |-> {"bob"},
                       rating |-> 90, viewCount |-> 1, commentCount |-> 0,
                       favoriteCount |-> 1, isHot |-> FALSE, isNewDrama |-> TRUE,
                       releaseDate |-> 0 - 2 * DAY,
                       createdAt |-> 0 - 1 * DAY, updatedAt |-> 0 - 100]
          [] d = 3 -> [category |-> "romance", tags |-> {"sweet"}, cast |-> {"ann", "bob"},
                       rating |-> 70, viewCount |-> 1, commentCount |-> 0,
                       favoriteCount |-> 0, isHot |-> TRUE, isNewDrama |-> FALSE,
                       releaseDate |-> 0 - 35 * DAY,
                       createdAt |-> 0 - 2 * DAY, updatedAt |-> 0 - 200]]

(***************************************************************************)
(* DramaController.getDramas and DramaService.getDramas.  A request's      *)
(* query string is a function from the parameters it gives to their text;  *)
(* a number's text is its sequence of digits.                              *)
(***************************************************************************)
DRAMA_CACHE_TTL == 1800
DEFAULT_LIMIT == 20
MAX_LIMIT == 100

EmptyObject == [x \in {} |-> TRUE]
None == [none |-> TRUE]
Has(obj, f) == f \in DOMAIN obj
Min(a, b) == IF a < b THEN a ELSE b

\* parseInt(text) || dflt : a missing parameter parses to NaN, and 0 is falsy too
ParseIntOr(req, f, dflt) ==
    IF Has(req, f) /\ ParseInt(req[f]) # 0 THEN ParseInt(req[f]) ELSE dflt

\* the DramaFilters object the controller builds (undefined properties left out;
\* the requests of this model give no tags, status, rating bounds or search)
ControllerFilters(req) ==
    (IF Has(req, "category") THEN [category |-> req.category] ELSE EmptyObject) @@
    [isHot |-> Has(req, "isHot") /\ req.isHot = "true",
     isNew |-> Has(req, "isNew") /\ req.isNew = "true",
     page |-> ParseIntOr(req, "page", 1),
     limit |-> Min(ParseIntOr(req, "limit", DEFAULT_LIMIT), MAX_LIMIT),
     sortBy |-> IF Has(req, "sortBy") THEN req.sortBy ELSE "createdAt",
     sortOrder |-> IF Has(req, "sortOrder") THEN req.sortOrder ELSE "desc"]

\* DramaService.buildQuery (status and releaseDate are never given here)
BuildQuery(filters) ==
    (IF Has(filters, "category") /\ filters.category # ""
     THEN [category |-> filters.category] ELSE EmptyObject) @@
    (IF Has(filters, "tags") /\ filters.tags # {}
     THEN [tags |-> filters.tags] ELSE EmptyObject) @@
    (IF Has(filters, "isHot") THEN [isHot |-> filters.isHot] ELSE EmptyObject) @@
    (IF Has(filters, "isNew") THEN [isNewDrama |-> filters.isNew] ELSE EmptyObject)

\* DramaService.buildSort
BuildSort(filters) ==
    [field |-> IF Has(filters, "sortBy") THEN filters.sortBy ELSE "createdAt",
     dir |-> IF Has(filters, "sortOrder") /\ filters.sortOrder = "asc" THEN 1 ELSE -1]

\* does a drama match a query document
Matches(dr, query) ==
    /\ Has(query, "category") => dr.category = query.category
    /\ Has(query, "tags") => dr.tags \cap query.tags # {}
    /\ Has(query, "isHot") => dr.isHot = query.isHot
    /\ Has(query, "isNewDrama") => dr.isNewDrama = query.isNewDrama

SortKey(dr, field) ==
    CASE field = "viewCount" -> dr.viewCount
      [] field = "rating" -> dr.rating
      [] OTHER -> dr.createdAt

\* the order of .sort(sort); dramas with equal keys come in _id order
DramaBefore(a, b, sort) ==
    LET ka == SortKey(dramas[a], sort.field) * sort.dir
        kb == SortKey(dramas[b], sort.field) * sort.dir
    IN  ka < kb \/ (ka = kb /\ a < b)

RECURSIVE SortDramas(_, _)
SortDramas(S, sort) ==
    IF S = {} THEN <<>>
    ELSE LET first == CHOOSE a \in S : \A b \in S \ {a} : DramaBefore(a, b, sort)
         IN  <<first>> \o SortDramas(S \ {first}, sort)

\* .skip(skip).limit(limit)
Page(s, skip, limit) == SubSeq(s, skip + 1, Min(skip + limit, Len(s)))

\* a lean drama document, and its JSON
DramaDoc(id) ==
    [_id |-> ObjectId(id)] @@
    [dramas[id] EXCEPT !.releaseDate = DateOf(@), !.createdAt = DateOf(@),
                       !.updatedAt = DateOf(@)]

StringifyDrama(doc) ==
    [doc EXCEPT !._id = StringifyValue(@), !.releaseDate = StringifyValue(@),
                !.createdAt = StringifyValue(@), !.updatedAt = StringifyValue(@)]

\* Drama.find(query).sort(sort).skip(skip).limit(limit).lean()
FindDramas(query, sort, skip, limit) ==
    LET ids == Page(SortDramas({d \in DOMAIN dramas : Matches(dramas[d], query)}, sort),
                    skip, limit)
    IN  [i \in 1..Len(ids) |-> DramaDoc(ids[i])]

\* Drama.countDocuments(query)
CountDramas(query) == Cardinality({d \in DOMAIN dramas : Matches(dramas[d], query)})

\* Math.ceil(total / limit)
Ceil(total, limit) == (total + limit - 1) \div limit

\* the DramaListResponse built from the store
ListResult(filters) ==
    LET query == BuildQuery(filters)
        skip == (filters.page - 1) * filters.limit
        total == CountDramas(query)
    IN  [dramas |-> FindDramas(query, BuildSort(filters), skip, filters.limit),
         pagination |-> [page |-> filters.page, limit |-> filters.limit, total |-> total,
                         pages |-> Ceil(total, filters.limit)],
         filters |-> filters]

\* JSON.stringify(result); applied to a parsed cached result it gives the cached text
StringifyResult(r) ==
    [r EXCEPT !.dramas = [i \in 1..Len(@) |-> StringifyDrama(@[i])]]

\* `drama:list:${JSON.stringify({ query, sort, skip, limit })}`
DramaListKey(filters) ==
    [ns |-> "drama:list:",
     json |-> [query |-> BuildQuery(filters), sort |-> BuildSort(filters),
               skip |-> (filters.page - 1) * filters.limit, limit |-> filters.limit]]

\* a cache command is rejected only while the client is used, and the set
\* is only reached after a miss
FaultPossible(fault, hit) ==
    /\ fault = "get" => IsReady
    /\ fault = "set" => IsReady /\ ~hit

\* the request whose calls are remembered
WatchedRequest == [isHot |-> "true", sortBy |-> "viewCount", limit |-> <<2>>]

GetDramas(req, fault) ==
    LET filters == ControllerFilters(req)
        key == DramaListKey(filters)
        hit == IsReady /\ CacheLive(cache, key)
        fresh == ListResult(filters)
        failed == fault # "none"
        queried == ~hit /\ fault # "get"
        body == IF hit THEN StringifyResult(CacheGet(cache, key)) ELSE StringifyResult(fresh)
        call == [at |-> now, body |-> body]
    IN  /\ FaultPossible(fault, hit)
        /\ cache' = IF IsReady /\ ~hit /\ ~failed
                    THEN CacheSet(cache, key, StringifyResult(fresh), DRAMA_CACHE_TTL)
                    ELSE cache
        /\ listCalls' = IF req = WatchedRequest /\ IsReady /\ ~failed
                        THEN [call |-> call,
                              miss |-> IF hit THEN listCalls.miss ELSE call]
                        ELSE listCalls
        /\ lastOp' = [op |-> "getDramas", req |-> req, ready |-> IsReady, fault |-> fault,
                      status |-> IF failed THEN 500 ELSE 200,
                      fromCache |-> hit /\ ~failed,
                      finds |-> IF queried THEN 1 ELSE 0,
                      counts |-> IF queried THEN 1 ELSE 0,
                      body |-> IF failed THEN None ELSE body,
                      fresh |-> StringifyResult(fresh),
                      prevCall |-> IF req = WatchedRequest THEN listCalls.call ELSE None,
                      prevMiss |-> IF req = WatchedRequest THEN listCalls.miss ELSE None]
        /\ UNCHANGED <<flightVars, preferenceVars, now, isConnected, authVars, categories, nextCatId, dramas>>

\* `drama:detail:${id}`
DramaDetailKey(id) == [ns |-> "drama:detail:", id |-> id]

GetDramaById(id, fault) ==
    LET key == DramaDetailKey(id)
        hit == IsReady /\ CacheLive(cache, key)
        found == id \in DOMAIN dramas
        failed == fault # "none"
        stored == IsReady /\ ~hit /\ found
    IN  /\ FaultPossible(fault, hit)
        /\ fault = "set" => found
        /\ cache' = IF stored /\ ~failed
                    THEN CacheSet(cache, key, StringifyDrama(DramaDoc(id)), DRAMA_CACHE_TTL)
                    ELSE cache
        /\ lastOp' = [op |-> "getDramaById", id |-> id, ready |-> IsReady, fault |-> fault,
                      viewsBefore |-> IF found THEN viewCalls[id] ELSE 0,
                      status |-> IF failed THEN 500
                                 ELSE IF hit \/ found THEN 200 ELSE 404,
                      fromCache |-> hit /\ ~failed,
                      body |-> IF failed \/ (~hit /\ ~found) THEN None
                               ELSE IF hit THEN StringifyDrama(CacheGet(cache, key))
                               ELSE StringifyDrama(DramaDoc(id)),
                      fresh |-> IF found THEN StringifyDrama(DramaDoc(id)) ELSE None]
        /\ UNCHANGED <<flightVars, preferenceVars, now, isConnected, authVars, contentVars>>

\* DEL as if it took a glob pattern
DelPatterns_Glob(c) ==
    [k \in {x \in DOMAIN c : x.ns \notin {"drama:list:", "drama:hot:", "drama:trending:"}}
        |-> c[k]]

\* redis.del(`drama:list:*`) and the like: DEL takes a key, not a pattern
DelPatterns(c) ==
    CacheDel(CacheDel(CacheDel(c, [ns |-> "drama:list:", text |-> "*"]),
                      [ns |-> "drama:hot:", text |-> "*"]),
             [ns |-> "drama:trending:", text |-> "*"])

\* a view that skips the store
ViewCountUpdate_Lost(id) == dramas

\* await Drama.findByIdAndUpdate(id, { $inc: { viewCount: 1 } }): one atomic
\* update of the store; the schema's timestamps option sets updatedAt with it
ViewCountUpdate(id) ==
    IF id \in DOMAIN dramas
    THEN [dramas EXCEPT ![id].viewCount = @ + 1, ![id].updatedAt = now]
    ELSE dramas

\* the handler run without interruption
IncrementViewCount(id) ==
    /\ id \in DOMAIN dramas => dramas[id].viewCount < MaxViews
    /\ dramas' = ViewCountUpdate(id)
    /\ cache' = IF IsReady THEN DelPatterns(CacheDel(cache, DramaDetailKey(id))) ELSE cache
    /\ viewCalls' = IF id \in DOMAIN dramas THEN [viewCalls EXCEPT ![id] = @ + 1]
                    ELSE viewCalls
    /\ lastOp' = [op |-> "incrementViewCount", id |-> id, ready |-> IsReady]
    /\ UNCHANGED <<inFlight, limiter, preferenceVars, now, isConnected, authVars, categories, nextCatId,
                   listCalls>>

\* the clock of the list specification
ListTick ==
    /\ now + ListTickStep <= ListMaxTime
    /\ now' = now + ListTickStep
    /\ cache' = Expire(cache, now + ListTickStep)
    /\ lastOp' = [op |-> "tick"]
    /\ UNCHANGED <<flightVars, preferenceVars, isConnected, authVars, contentVars>>

Faults == {"none", "get", "set"}
ListRequests ==
    {WatchedRequest, [category |-> "action", isNew |-> "true"], [category |-> "action"]}

(***************************************************************************)
(* SearchController.getRanking and RankingService.  Scores are kept in     *)
(* hundredths, as Math.round(score * 100) / 100 leaves them; the           *)
(* arithmetic before the rounding is done in ten-thousandths, with         *)
(* log10 read from a table of thousandths.                                 *)
(***************************************************************************)
RANKING_CACHE_TTL == 7200
RANKING_DEFAULT_LIMIT == 20

\* new Date('2020-01-01') on the model's clock
START_OF_2020 == 0 - 2000 * DAY

\* Math.log10(n) in thousandths
Log10Milli(n) ==
    CASE n = 1 -> 0 [] n = 2 -> 301 [] n = 3 -> 477 [] n = 4 -> 602 [] n = 5 -> 699
      [] n = 6 -> 778 [] n = 7 -> 845 [] n = 8 -> 903 [] n = 9 -> 954 [] OTHER -> 1000

\* parseInt of a query text: an optional sign and digits
ParseSigned(t) == IF t.neg THEN 0 - ParseInt(t.digits) ELSE ParseInt(t.digits)

\* the weights of calculateRankingScore, in hundredths
Weights(type) ==
    CASE type \in {"daily", "weekly"} ->
            [viewCount |-> 50, rating |-> 10, commentCount |-> 20, favoriteCount |-> 20]
      [] type = "all_time" ->
            [viewCount |-> 20, rating |-> 40, commentCount |-> 10, favoriteCount |-> 30]
      [] OTHER ->
            [viewCount |-> 40, rating |-> 30, commentCount |-> 15, favoriteCount |-> 15]

Max(a, b) == IF a > b THEN a ELSE b

\* calculateTimeDecay, in thousandths
TimeDecay(updatedAt, type) ==
    LET secs == now - updatedAt
    IN  CASE type = "daily" -> Max(500, 1000 - (secs * 1000) \div (48 * 3600))
          [] type = "weekly" -> Max(700, 1000 - (secs * 1000) \div (7 * 24 * 2 * 3600))
          [] OTHER -> 1000

\* calculateRankingScore, in hundredths
CalculateRankingScore(dr, type) ==
    LET w == Weights(type)
        base == Log10Milli(dr.viewCount + 1) * w.viewCount * 2
                + dr.rating * w.rating * 100
                + (Log10Milli(dr.commentCount + 1) * w.commentCount * 15) \div 10
                + (Log10Milli(dr.favoriteCount + 1) * w.favoriteCount * 15) \div 10
        decayed == IF type \in {"daily", "weekly"}
                   THEN (base * TimeDecay(dr.updatedAt, type)) \div 1000 ELSE base
        hot == IF dr.isHot THEN (decayed * 11) \div 10 ELSE decayed
        new == IF dr.isNewDrama THEN (hot * 105) \div 100 ELSE hot
    IN  (new + 50) \div 100

\* calculatePeriod; a month back is 28 to 31 days back
CalculatePeriod(type, monthDays) ==
    [start |-> CASE type = "daily" -> now - DAY
                 [] type = "weekly" -> now - 7 * DAY
                 [] type = "monthly" -> now - monthDays * DAY
                 [] OTHER -> START_OF_2020,
     end |-> now]

\* the dramas calculateRanking's query finds
RankingCandidates(type, period, category) ==
    {d \in DOMAIN dramas :
        /\ category # "" => dramas[d].category = category
        /\ type # "all_time" =>
              period.start <= dramas[d].updatedAt /\ dramas[d].updatedAt <= period.end}

\* sort((a, b) => b.score - a.score) is stable: equal scores keep the find order
RankBefore(a, b, type) ==
    LET sa == CalculateRankingScore(dramas[a], type)
        sb == CalculateRankingScore(dramas[b], type)
    IN  sa > sb \/ (sa = sb /\ a < b)

RECURSIVE SortByScore(_, _)
SortByScore(S, type) ==
    IF S = {} THEN <<>>
    ELSE LET first == CHOOSE a \in S : \A b \in S \ {a} : RankBefore(a, b, type)
         IN  <<first>> \o SortByScore(S \ {first}, type)

\* Array.prototype.slice(0, end)
Slice0(s, end) ==
    IF end >= 0 THEN SubSeq(s, 1, Min(end, Len(s)))
    ELSE SubSeq(s, 1, Max(Len(s) + end, 0))

\* calculateRanking; a failing populate of the string path is caught and gives []
CalculateRanking(type, period, category, limit, populateFails) ==
    IF populateFails THEN <<>>
    ELSE LET ids == Slice0(SortByScore(RankingCandidates(type, period, category), type), limit)
         IN  [i \in 1..Len(ids) |->
                 [rank |-> i,
                  drama |-> DramaDoc(ids[i]),
                  score |-> CalculateRankingScore(dramas[ids[i]], type),
                  change |-> 0,
                  metrics |-> [viewCount |-> dramas[ids[i]].viewCount,
                               rating |-> dramas[ids[i]].rating,
                               commentCount |-> dramas[ids[i]].commentCount,
                               favoriteCount |-> dramas[ids[i]].favoriteCount]]]

\* JSON.stringify(result)
StringifyRanking(r) ==
    [r EXCEPT !.items = [i \in 1..Len(@) |-> [@[i] EXCEPT !.drama = StringifyDrama(@)]],
              !.generatedAt = StringifyValue(@),
              !.period = [start |-> StringifyValue(@.start), end |-> StringifyValue(@.end)]]

\* `ranking:${type}:${category || 'all'}:${limit}`
RankingKey(type, category, limit) ==
    [ns |-> "ranking:", type |-> type,
     category |-> IF category # "" THEN category ELSE "all", limit |-> limit]

\* req: [type, and optionally category and limit]; no category reads as ""
GetRanking(req, monthDays, populateFails) ==
    LET type == req.type
        category == IF Has(req, "category") THEN req.category ELSE ""
        limit == IF Has(req, "limit") THEN ParseSigned(req.limit) ELSE RANKING_DEFAULT_LIMIT
        key == RankingKey(type, category, limit)
        hit == IsReady /\ CacheLive(cache, key)
        period == CalculatePeriod(type, monthDays)
        result == (IF category # "" THEN [category |-> category] ELSE EmptyObject) @@
                  [type |-> type,
                   items |-> CalculateRanking(type, period, category, limit, populateFails),
                   generatedAt |-> DateOf(now),
                   period |-> [start |-> DateOf(period.start), end |-> DateOf(period.end)]]
    IN  /\ cache' = IF IsReady /\ ~hit
                    THEN CacheSet(cache, key, StringifyRanking(result), RANKING_CACHE_TTL)
                    ELSE cache
        /\ lastOp' = [op |-> "getRanking", req |-> req, limit |-> limit, status |-> 200,
                      fromCache |-> hit,
                      body |-> IF hit THEN StringifyRanking(CacheGet(cache, key))
                               ELSE StringifyRanking(result)]
        /\ UNCHANGED <<flightVars, preferenceVars, now, isConnected, authVars, contentVars>>

RankingRequests ==
    {[type |-> "daily"],
     [type |-> "weekly", category |-> "romance", limit |-> [neg |-> FALSE, digits |-> <<2>>]],
     [type |-> "monthly", limit |-> [neg |-> FALSE, digits |-> <<1>>]],
     [type |-> "all_time", limit |-> [neg |-> TRUE, digits |-> <<1>>]]}

(***************************************************************************)
(* SearchController.getRecommendations and RecommendationService.  A cache *)
(* key is the text the service builds, a sequence of characters, so that   *)
(* cutting it at 250 characters is the cut the code makes.  Scores are in  *)
(* thousandths.  Requests are anonymous: they carry no userId.             *)
(***************************************************************************)
RECOMMENDATION_CACHE_TTL == 3600
RECOMMENDATION_DEFAULT_LIMIT == 10
KEY_MAX_LENGTH == 250

\* the characters of the texts the key is built from and of the strings that
\* occur in requests
Chars(s) ==
    CASE s = "recommendation:" ->
            <<"r", "e", "c", "o", "m", "m", "e", "n", "d", "a", "t", "i", "o", "n", ":">>
      [] s = "dramaId" -> <<"d", "r", "a", "m", "a", "I", "d">>
      [] s = "type" -> <<"t", "y", "p", "e">>
      [] s = "limit" -> <<"l", "i", "m", "i", "t">>
      [] s = "excludeWatched" ->
            <<"e", "x", "c", "l", "u", "d", "e", "W", "a", "t", "c", "h", "e", "d">>
      [] s = "categories" -> <<"c", "a", "t", "e", "g", "o", "r", "i", "e", "s">>
      [] s = "true" -> <<"t", "r", "u", "e">>
      [] s = "false" -> <<"f", "a", "l", "s", "e">>
      [] s = "hot" -> <<"h", "o", "t">>
      [] s = "new" -> <<"n", "e", "w">>
      [] s = "trending" -> <<"t", "r", "e", "n", "d", "i", "n", "g">>
      [] s = "romance" -> <<"r", "o", "m", "a", "n", "c", "e">>
      [] s = "action" -> <<"a", "c", "t", "i", "o", "n">>

DigitChar(d) ==
    CASE d = 0 -> "0" [] d = 1 -> "1" [] d = 2 -> "2" [] d = 3 -> "3" [] d = 4 -> "4"
      [] d = 5 -> "5" [] d = 6 -> "6" [] d = 7 -> "7" [] d = 8 -> "8" [] d = 9 -> "9"

\* JSON.stringify of a non-negative number, of a string, of a boolean
NumberText(n) == LET ds == NumToString(n) IN [i \in 1..Len(ds) |-> DigitChar(ds[i])]
StringText(chars) == <<"\"">> \o chars \o <<"\"">>
BooleanText(b) == IF b THEN Chars("true") ELSE Chars("false")

\* "name":value
Property(name, valueText) == StringText(Chars(name)) \o <<":">> \o valueText

\* texts joined by commas
RECURSIVE Join(_)
Join(texts) ==
    IF Len(texts) = 0 THEN <<>>
    ELSE IF Len(texts) = 1 THEN texts[1]
    ELSE texts[1] \o <<",">> \o Join(Tail(texts))

\* JSON.stringify of an array of strings
ArrayText(names) == <<"[">> \o Join([i \in 1..Len(names) |-> StringText(Chars(names[i]))])
                    \o <<"]">>

\* the RecommendationRequest the controller builds
ControllerRequest(req) ==
    (IF Has(req, "dramaId") THEN [dramaId |-> req.dramaId] ELSE EmptyObject) @@
    (IF Has(req, "categories") THEN [categories |-> req.categories] ELSE EmptyObject) @@
    [type |-> req.type,
     limit |-> IF Has(req, "limit") THEN ParseInt(req.limit) ELSE RECOMMENDATION_DEFAULT_LIMIT,
     excludeWatched |-> ~(Has(req, "excludeWatched") /\ req.excludeWatched = "false")]

\* JSON.stringify({ userId, dramaId, type, limit, excludeWatched, categories })
RequestText(request) ==
    <<"{">> \o
    Join((IF Has(request, "dramaId")
          THEN <<Property("dramaId", StringText(request.dramaId))>> ELSE <<>>) \o
         <<Property("type", StringText(Chars(request.type))),
           Property("limit", NumberText(request.limit)),
           Property("excludeWatched", BooleanText(request.excludeWatched))>> \o
         (IF Has(request, "categories")
          THEN <<Property("categories", ArrayText(request.categories))>> ELSE <<>>)) \o
    <<"}">>

\* key.substring(0, 250)
Substring(text, n) == SubSeq(text, 1, Min(n, Len(text)))

BuildCacheKey(request) ==
    [ns |-> "recommendation:",
     chars |-> Substring(Chars("recommendation:") \o RequestText(request), KEY_MAX_LENGTH)]

\* .limit(n) of the store: 0 is no limit
Limit(s, n) == IF n = 0 THEN s ELSE SubSeq(s, 1, Min(n, Len(s)))

\* query.category = { $in: categories }
InCategories(dr, request) ==
    (Has(request, "categories") /\ Len(request.categories) > 0) =>
        \E i \in 1..Len(request.categories) : dr.category = request.categories[i]

\* .sort({ rating: -1, viewCount: -1 })
HotBefore(a, b) ==
    \/ dramas[a].rating > dramas[b].rating
    \/ dramas[a].rating = dramas[b].rating /\ dramas[a].viewCount > dramas[b].viewCount
    \/ dramas[a].rating = dramas[b].rating /\ dramas[a].viewCount = dramas[b].viewCount
                                           /\ a < b

\* .sort({ releaseDate: -1, createdAt: -1 })
NewBefore(a, b) ==
    \/ dramas[a].releaseDate > dramas[b].releaseDate
    \/ dramas[a].releaseDate = dramas[b].releaseDate
          /\ dramas[a].createdAt > dramas[b].createdAt
    \/ dramas[a].releaseDate = dramas[b].releaseDate
          /\ dramas[a].createdAt = dramas[b].createdAt /\ a < b

RECURSIVE SortHot(_)
SortHot(S) ==
    IF S = {} THEN <<>>
    ELSE LET first == CHOOSE a \in S : \A b \in S \ {a} : HotBefore(a, b)
         IN  <<first>> \o SortHot(S \ {first})

RECURSIVE SortNew(_)
SortNew(S) ==
    IF S = {} THEN <<>>
    ELSE LET first == CHOOSE a \in S : \A b \in S \ {a} : NewBefore(a, b)
         IN  <<first>> \o SortNew(S \ {first})

\* the query of getHotRecommendations
HotQuery(request) ==
    {d \in DOMAIN dramas : dramas[d].isHot /\ InCategories(dramas[d], request)}

\* getHotRecommendations; a failing populate of the string path is caught and gives []
GetHotRecommendations(request, populateFails) ==
    IF populateFails THEN <<>>
    ELSE LET ids == Limit(SortHot(HotQuery(request)), request.limit)
         IN  [i \in 1..Len(ids) |->
                 [drama |-> DramaDoc(ids[i]),
                  score |-> dramas[ids[i]].rating * 1000
                            + Log10Milli(dramas[ids[i]].viewCount + 1),
                  type |-> "hot"]]

\* getNewRecommendations
GetNewRecommendations(request, populateFails) ==
    IF populateFails THEN <<>>
    ELSE LET ids == Limit(SortNew({d \in DOMAIN dramas :
                              dramas[d].isNewDrama /\ InCategories(dramas[d], request)}),
                          request.limit)
         IN  [i \in 1..Len(ids) |->
                 [drama |-> DramaDoc(ids[i]),
                  score |-> 80000 + dramas[ids[i]].rating * 100,
                  type |-> "new"]]

\* .sort({ viewCount: -1, rating: -1, updatedAt: -1 })
TrendingBefore(a, b) ==
    LET ka == <<dramas[a].viewCount, dramas[a].rating, dramas[a].updatedAt>>
        kb == <<dramas[b].viewCount, dramas[b].rating, dramas[b].updatedAt>>
    IN  \/ ka[1] > kb[1]
        \/ ka[1] = kb[1] /\ ka[2] > kb[2]
        \/ ka[1] = kb[1] /\ ka[2] = kb[2] /\ ka[3] > kb[3]
        \/ ka = kb /\ a < b

RECURSIVE SortTrending(_)
SortTrending(S) ==
    IF S = {} THEN <<>>
    ELSE LET first == CHOOSE a \in S : \A b \in S \ {a} : TrendingBefore(a, b)
         IN  <<first>> \o SortTrending(S \ {first})

\* getTimeScore: Math.max(0, 20 - daysDiff * 0.5), in thousandths
GetTimeScore(date) == Max(0, 20000 - ((now - date) * 500) \div DAY)

\* calculateTrendingScore, in thousandths
CalculateTrendingScore(dr) ==
    Log10Milli(dr.viewCount + 1) * 10 + dr.rating * 800 + GetTimeScore(dr.updatedAt)

\* getTrendingRecommendations: the items keep the order of the store's sort
GetTrendingRecommendations(request, populateFails) ==
    IF populateFails THEN <<>>
    ELSE LET ids == Limit(SortTrending({d \in DOMAIN dramas :
                                          InCategories(dramas[d], request)}),
                          request.limit)
         IN  [i \in 1..Len(ids) |->
                 [drama |-> DramaDoc(ids[i]),
                  score |-> CalculateTrendingScore(dramas[ids[i]]),
                  type |-> "trending"]]

\* JSON.stringify(result)
StringifyRecommendations(r) ==
    [r EXCEPT !.items = [i \in 1..Len(@) |-> [@[i] EXCEPT !.drama = StringifyDrama(@)]],
              !.generatedAt = StringifyValue(@)]

\* the handler; the clock is in seconds, so executionTime is 0
GetRecommendations(req, populateFails) ==
    LET request == ControllerRequest(req)
        key == BuildCacheKey(request)
        hit == IsReady /\ CacheLive(cache, key)
        items == CASE request.type = "hot" -> GetHotRecommendations(request, populateFails)
                   [] request.type = "new" -> GetNewRecommendations(request, populateFails)
                   [] OTHER -> GetTrendingRecommendations(request, populateFails)
        result == [type |-> request.type, items |-> items, total |-> Len(items),
                   generatedAt |-> DateOf(now),
                   algorithm |-> CASE request.type = "hot" -> "popularity_score"
                                   [] request.type = "new" -> "release_date"
                                   [] OTHER -> "trending_score",
                   executionTime |-> 0]
    IN  /\ cache' = IF IsReady /\ ~hit
                    THEN CacheSet(cache, key, StringifyRecommendations(result),
                                  RECOMMENDATION_CACHE_TTL)
                    ELSE cache
        /\ lastOp' = [op |-> "getRecommendations", req |-> req, status |-> 200,
                      limit |-> request.limit, fromCache |-> hit,
                      body |-> IF hit THEN StringifyRecommendations(CacheGet(cache, key))
                               ELSE StringifyRecommendations(result)]
        /\ UNCHANGED <<flightVars, preferenceVars, now, isConnected, authVars, contentVars>>

\* a dramaId of LongIdLength characters
LongDramaId == [i \in 1..LongIdLength |-> "a"]

RecommendationRequests ==
    {[type |-> "hot"],
     [type |-> "hot", dramaId |-> LongDramaId],
     [type |-> "new", dramaId |-> LongDramaId],
     [type |-> "hot", categories |-> <<"action", "romance">>, limit |-> <<1>>],
     [type |-> "trending"]}

(***************************************************************************)
(* RecommendationService.calculateSimilarityScore.  Tags and cast are      *)
(* arrays, so sequences; the score is in tenths.                           *)
(***************************************************************************)
\* array.includes(x)
Includes(arr, x) == \E i \in 1..Len(arr) : arr[i] = x

\* base.filter(x => target.includes(x)).length
CommonCount(base, target) == Cardinality({i \in 1..Len(base) : Includes(target, base[i])})

\* Math.max(0, 20 - ratingDiff * 4)
RatingCloseness(base, target) ==
    LET ratingDiff == IF base.rating >= target.rating THEN base.rating - target.rating
                      ELSE target.rating - base.rating
    IN  Max(0, 200 - ratingDiff * 4)

\* the score before Math.min(100, score)
SimilarityPoints(baseDrama, targetDrama) ==
    (IF baseDrama.category = targetDrama.category THEN 300 ELSE 0)
    + CommonCount(baseDrama.tags, targetDrama.tags) * 100
    + CommonCount(baseDrama.cast, targetDrama.cast) * 150
    + RatingCloseness(baseDrama, targetDrama)

CalculateSimilarityScore_Uncapped(baseDrama, targetDrama) ==
    SimilarityPoints(baseDrama, targetDrama)

CalculateSimilarityScore(baseDrama, targetDrama) ==
    Min(1000, SimilarityPoints(baseDrama, targetDrama))

\* the scorer applied to the seed and the candidate that were handed in
ScoreSimilarity ==
    /\ lastOp.op = "similarityInput"
    /\ lastOp' = [op |-> "calculateSimilarityScore", base |-> lastOp.base,
                  target |-> lastOp.target,
                  score |-> CalculateSimilarityScore(lastOp.base, lastOp.target)]
    /\ UNCHANGED <<flightVars, preferenceVars, now, isConnected, cache, authVars, contentVars>>

SeqsUpTo(S, n) == UNION {[1..k -> S] : k \in 0..n}

\* the seeds and the candidates the scorer is applied to
SeedDramas ==
    [category : {"romance", "action"}, tags : SeqsUpTo({"sweet", "ceo"}, MaxTagCount),
     cast : SeqsUpTo({"ann", "bob"}, MaxCastCount), rating : {50, 80, 100}]

CandidateDramas ==
    [category : {"romance", "action"},
     tags : {<<>>, <<"sweet">>, <<"ceo", "sweet">>},
     cast : {<<>>, <<"bob", "ann">>}, rating : {80}]

(***************************************************************************)
(* UserPreference: the preference document of a user and                   *)
(* updatePreferenceFromDrama.  Weights are in thousandths (1000 is 1).     *)
(* Category, tag and actor names are numbered; a drama handed in has the   *)
(* fields its record has (drama is `any` in the source).                   *)
(***************************************************************************)
MAX_CATEGORY_PREFERENCES == 10
MAX_TAG_PREFERENCES == 20
MAX_ACTOR_PREFERENCES == 15

\* actionWeights
ActionWeights(action) ==
    CASE action = "view" -> 100 [] action = "like" -> 300
      [] action = "favorite" -> 500 [] action = "complete" -> 700

PreferenceActions == {"view", "like", "favorite", "complete"}

\* Math.min(1, Math.max(0, weight))
ClampWeight(weight) == Min(1000, Max(0, weight))

\* list.findIndex(x => x.name === name), counted from 1; 0 when there is none
FindIndex(list, name) ==
    IF \E i \in 1..Len(list) : list[i].name = name
    THEN CHOOSE i \in 1..Len(list) :
            list[i].name = name /\ \A j \in 1..(i - 1) : list[j].name # name
    ELSE 0

\* list.sort((a, b) => b.weight - a.weight): stable, heaviest first
RECURSIVE SortByWeight(_)
SortByWeight(list) ==
    IF Len(list) = 0 THEN <<>>
    ELSE LET first == CHOOSE i \in 1..Len(list) :
                        /\ \A j \in 1..Len(list) : list[j].weight <= list[i].weight
                        /\ \A j \in 1..(i - 1) : list[j].weight < list[i].weight
         IN  <<list[first]>> \o
             SortByWeight(SubSeq(list, 1, first - 1) \o SubSeq(list, first + 1, Len(list)))

\* a list left as it is, however long
KeepTop_All(list, n) == list

\* if (list.length > n) { list.sort(...); list = list.slice(0, n) }
KeepTop(list, n) == IF Len(list) > n THEN SubSeq(SortByWeight(list), 1, n) ELSE list

\* the weight of an entry is set, or the entry is pushed
SetOrPush(list, name, weight) ==
    LET i == FindIndex(list, name)
    IN  IF i > 0 THEN [list EXCEPT ![i].weight = ClampWeight(weight)]
        ELSE Append(list, [name |-> name, weight |-> ClampWeight(weight)])

\* UserPreferenceSchema.methods.updateCategoryPreference
UpdateCategoryPreference(preference, category, weight) ==
    [preference EXCEPT !.categories =
        KeepTop(SetOrPush(@, category, weight), MAX_CATEGORY_PREFERENCES)]

\* UserPreferenceSchema.methods.updateTagPreference
UpdateTagPreference(preference, tag, weight) ==
    [preference EXCEPT !.tags = KeepTop(SetOrPush(@, tag, weight), MAX_TAG_PREFERENCES)]

\* drama.tags.forEach(tag => preference.updateTagPreference(tag, weight * 0.8))
RECURSIVE UpdateTags(_, _, _)
UpdateTags(preference, tags, weight) ==
    IF Len(tags) = 0 THEN preference
    ELSE UpdateTags(UpdateTagPreference(preference, Head(tags), (weight * 8) \div 10),
                    Tail(tags), weight)

\* drama.cast.forEach: an actor's weight grows by weight * 0.6, up to 1
RECURSIVE UpdateActors(_, _, _)
UpdateActors(actors, cast, weight) ==
    IF Len(cast) = 0 THEN actors
    ELSE LET i == FindIndex(actors, Head(cast))
             grown == IF i > 0
                      THEN [actors EXCEPT ![i].weight = Min(1000, @ + (weight * 6) \div 10)]
                      ELSE Append(actors, [name |-> Head(cast),
                                           weight |-> (weight * 6) \div 10])
         IN  UpdateActors(grown, Tail(cast), weight)

\* new this({ userId, categories: [], tags: [], actors: [], ... })
NewPreference == [categories |-> <<>>, tags |-> <<>>, actors |-> <<>>]

\* the document updatePreferenceFromDrama saves
UpdatedPreference(preference, drama, action) ==
    LET weight == ActionWeights(action)
        p1 == IF Has(drama, "category")
              THEN UpdateCategoryPreference(preference, drama.category, weight)
              ELSE preference
        p2 == IF Has(drama, "tags") THEN UpdateTags(p1, drama.tags, weight) ELSE p1
    IN  IF Has(drama, "cast")
        THEN [p2 EXCEPT !.actors = KeepTop(UpdateActors(@, drama.cast, weight),
                                           MAX_ACTOR_PREFERENCES)]
        ELSE p2

\* the drama whose category is d, with two tags and two cast members of its own
NumberedDrama(d) ==
    [category |-> d, tags |-> <<2 * d - 1, 2 * d>>, cast |-> <<2 * d - 1, 2 * d>>]

\* the preference of a user who liked the dramas 1 to n, one after the other
RECURSIVE LikedUpTo(_)
LikedUpTo(n) ==
    IF n = 0 THEN NewPreference
    ELSE UpdatedPreference(LikedUpTo(n - 1), NumberedDrama(n), "like")

\* UserPreferenceSchema.statics.updatePreferenceFromDrama, for the user userId
UpdatePreferenceFromDrama(userId, drama, action) ==
    LET before == IF userId \in DOMAIN preferences THEN preferences[userId]
                  ELSE NewPreference
        after == UpdatedPreference(before, drama, action)
    IN  /\ preferenceCalls < MaxPreferenceCalls
        /\ preferenceCalls' = preferenceCalls + 1
        /\ preferences' = (userId :> after) @@ preferences
        /\ lastOp' = [op |-> "updatePreferenceFromDrama", userId |-> userId,
                      drama |-> drama, action |-> action, before |-> before]
        /\ UNCHANGED <<flightVars, now, isConnected, cache, authVars, contentVars>>

\* the dramas handed in: a liked one, a new one, one with tags only
PreferenceDramas ==
    {NumberedDrama(1), NumberedDrama(SeedDramaCount + 1), [tags |-> <<1, 2 * SeedDramaCount + 3>>]}

(***************************************************************************)
(* Requests that overlap.  A handler gives way at each await, so a view    *)
(* and a detail read are taken here in the two steps their awaits make:    *)
(* the store call, then the cache calls and the answer.  A request between *)
(* its two steps is an entry of inFlight.                                  *)
(***************************************************************************)
\* a sequence without its i-th entry
Without(s, i) == SubSeq(s, 1, i - 1) \o SubSeq(s, i + 1, Len(s))

\* incrementViewCount up to the end of its store call
IncrementViewCountUpdate(id) ==
    /\ Len(inFlight) < MaxInFlight
    /\ id \in DOMAIN dramas => dramas[id].viewCount < MaxViews
    /\ dramas' = ViewCountUpdate(id)
    /\ inFlight' = Append(inFlight, [op |-> "incrementViewCount", id |-> id])
    /\ lastOp' = [op |-> "await"]
    /\ UNCHANGED <<viewCalls, limiter, preferenceVars, now, isConnected, cache, authVars, categories,
                   nextCatId, listCalls>>

\* the rest of incrementViewCount: the cache keys are deleted and the call answers
IncrementViewCountClear(i) ==
    LET id == inFlight[i].id
    IN  /\ inFlight[i].op = "incrementViewCount"
        /\ cache' = IF IsReady THEN DelPatterns(CacheDel(cache, DramaDetailKey(id)))
                    ELSE cache
        /\ inFlight' = Without(inFlight, i)
        /\ viewCalls' = IF id \in DOMAIN dramas THEN [viewCalls EXCEPT ![id] = @ + 1]
                        ELSE viewCalls
        /\ lastOp' = [op |-> "incrementViewCount", id |-> id, ready |-> IsReady]
        /\ UNCHANGED <<limiter, preferenceVars, now, isConnected, authVars, contentVars>>

\* getDramaById up to the end of Drama.findById, after a cache miss or with
\* the cache not ready; the drama exists
GetDramaByIdFind(id) ==
    /\ Len(inFlight) < MaxInFlight
    /\ id \in DOMAIN dramas
    /\ ~(IsReady /\ CacheLive(cache, DramaDetailKey(id)))
    /\ inFlight' = Append(inFlight, [op |-> "getDramaById", id |-> id,
                                     drama |-> DramaDoc(id),
                                     viewsBefore |-> viewCalls[id]])
    /\ lastOp' = [op |-> "await"]
    /\ UNCHANGED <<viewCalls, limiter, preferenceVars, now, isConnected, cache, authVars, contentVars>>

\* the rest of getDramaById: the drama found is stored in the cache and returned
GetDramaByIdStore(i) ==
    LET id == inFlight[i].id
        body == StringifyDrama(inFlight[i].drama)
    IN  /\ inFlight[i].op = "getDramaById"
        /\ cache' = IF IsReady THEN CacheSet(cache, DramaDetailKey(id), body, DRAMA_CACHE_TTL)
                    ELSE cache
        /\ inFlight' = Without(inFlight, i)
        /\ lastOp' = [op |-> "getDramaById", id |-> id, ready |-> IsReady, fault |-> "none",
                      viewsBefore |-> inFlight[i].viewsBefore,
                      status |-> 200, fromCache |-> FALSE, body |-> body,
                      fresh |-> StringifyDrama(DramaDoc(id))]
        /\ UNCHANGED <<viewCalls, limiter, preferenceVars, now, isConnected, authVars, contentVars>>

\* createCategory up to the end of category.save(): the unique index rejects a
\* taken name, the controller answers 409 and nothing else follows
CreateCategorySave(name, sortOrder, isActive) ==
    LET dup == DuplicateName(name, 0)
    IN  /\ Len(inFlight) < MaxInFlight
        /\ dup \/ nextCatId <= MaxCategories
        /\ categories' = IF dup THEN categories
                         ELSE categories \cup {[id |-> nextCatId, name |-> name,
                                                isActive |-> isActive, sortOrder |-> sortOrder]}
        /\ nextCatId' = IF dup THEN nextCatId ELSE nextCatId + 1
        /\ inFlight' = IF dup THEN inFlight
                       ELSE Append(inFlight, [op |-> "createCategory", name |-> name,
                                              status |-> 201,
                                              taken |-> \E c \in categories : c.name = name,
                                              before |-> categories])
        /\ lastOp' = IF dup THEN [op |-> "createCategory", name |-> name, status |-> 409,
                                  taken |-> \E c \in categories : c.name = name,
                                  before |-> categories]
                     ELSE [op |-> "await"]
        /\ UNCHANGED <<viewCalls, limiter, preferenceVars, now, isConnected, cache, authVars, dramaVars>>

\* updateCategory with a new name, up to the end of findByIdAndUpdate
UpdateCategorySave(id, name) ==
    LET found == FindCategory(id)
        old == CHOOSE c \in found : TRUE
        dup == DuplicateName(name, id)
    IN  /\ Len(inFlight) < MaxInFlight
        /\ found # {}
        /\ categories' = IF dup THEN categories
                         ELSE (categories \ found) \cup {[old EXCEPT !.name = name]}
        /\ inFlight' = IF dup THEN inFlight
                       ELSE Append(inFlight, [op |-> "updateCategory", name |-> name,
                                              status |-> 200,
                                              taken |-> \E c \in categories \ found :
                                                           c.name = name,
                                              before |-> categories])
        /\ lastOp' = IF dup THEN [op |-> "updateCategory", name |-> name, status |-> 409,
                                  taken |-> \E c \in categories \ found : c.name = name,
                                  before |-> categories]
                     ELSE [op |-> "await"]
        /\ UNCHANGED <<viewCalls, limiter, preferenceVars, now, isConnected, cache, authVars, nextCatId,
                       dramaVars>>

\* the rest of a category write that was saved: clearCache and the answer
CategoryWriteClear(i) ==
    /\ inFlight[i].op \in {"createCategory", "updateCategory"}
    /\ cache' = ClearCategoryCache(cache)
    /\ inFlight' = Without(inFlight, i)
    /\ lastOp' = [op |-> inFlight[i].op, name |-> inFlight[i].name,
                  status |-> inFlight[i].status,
                  taken |-> inFlight[i].taken, before |-> inFlight[i].before]
    /\ UNCHANGED <<viewCalls, limiter, preferenceVars, now, isConnected, authVars, contentVars>>

\* getActiveCategories up to the end of Category.find, after a cache miss or
\* with the cache not ready
GetActiveCategoriesFind ==
    /\ Len(inFlight) < MaxInFlight
    /\ ~(IsReady /\ CacheLive(cache, ACTIVE_CATEGORIES))
    /\ inFlight' = Append(inFlight,
                          [op |-> "getActiveCategories",
                           found |-> CategoryDocs({c \in categories : c.isActive})])
    /\ lastOp' = [op |-> "await"]
    /\ UNCHANGED <<viewCalls, limiter, preferenceVars, now, isConnected, cache, authVars, contentVars>>

\* the rest of getActiveCategories: the list found is stored in the cache and returned
GetActiveCategoriesStore(i) ==
    LET body == StringifyCategories(inFlight[i].found)
    IN  /\ inFlight[i].op = "getActiveCategories"
        /\ cache' = IF IsReady
                    THEN CacheSet(cache, ACTIVE_CATEGORIES, body, CACHE_TTL_CATEGORY)
                    ELSE cache
        /\ inFlight' = Without(inFlight, i)
        /\ lastOp' = [op |-> "getActiveCategories", status |-> 200, fromCache |-> FALSE,
                      body |-> body]
        /\ UNCHANGED <<viewCalls, limiter, preferenceVars, now, isConnected, authVars, contentVars>>

(***************************************************************************)
(* UserService.updateUserStatus.                                           *)
(***************************************************************************)
UserProfileKey(id) == [ns |-> "user:profile:", id |-> id]
UserListPattern == [ns |-> "user:list:", chars |-> "*"]
UserStatsKey == [ns |-> "user:stats"]

\* clearUserCache: the keys are deleted one by one when the cache is ready
ClearUserCache(id) ==
    IF ~IsReady THEN cache
    ELSE CacheDel(CacheDel(CacheDel(cache, UserProfileKey(id)), UserListPattern),
                  UserStatsKey)

\* sessions are cleared for the status banned only
SessionsAfterStatus_BannedOnly(id, status) ==
    IF status = "banned" THEN ClearUserSessions(id) ELSE sessions

\* if (status === BANNED || status === INACTIVE) clearUserSessions(id)
SessionsAfterStatus(id, status) ==
    IF status \in {"banned", "inactive"} THEN ClearUserSessions(id) ELSE sessions

UserStatuses == {"active", "inactive", "banned"}

\* updateUserStatus(id, status); findByIdAndUpdate finds no user of an unknown id
UpdateUserStatus(id, status) ==
    LET found == id \in UserIds
    IN  /\ users' = IF found THEN [users EXCEPT ![id].status = status] ELSE users
        /\ sessions' = IF found THEN SessionsAfterStatus(id, status) ELSE sessions
        /\ cache' = IF found THEN ClearUserCache(id) ELSE cache
        /\ lastOp' = [op |-> "updateUserStatus", id |-> id, status |-> status,
                      found |-> found, hadSessions |-> found /\ \E i \in 1..Len(sessions) :
                                    sessions[i].userId = id /\ sessions[i].isActive]
        /\ UNCHANGED <<flightVars, preferenceVars, contentVars, now, isConnected, nextTokenId,
                       watched, failHist, sinceOk, sinceClear, lockedAt, issued, revoked,
                       loggedOut, refreshed, ended>>

(***************************************************************************)
(* SearchService.calculateRelevanceScore.  Texts are sequences of          *)
(* characters; scores are in thousandths of a point.                       *)
(***************************************************************************)
Letters == {"a", "b", "A"}

\* String.prototype.toLowerCase
ToLowerCase(text) ==
    [i \in 1..Len(text) |-> CASE text[i] = "A" -> "a" [] text[i] = "B" -> "b"
                              [] OTHER -> text[i]]

\* text.includes(part)
IncludesText(text, part) ==
    \E i \in 0..(Len(text) - Len(part)) : SubSeq(text, i + 1, i + Len(part)) = part

\* text.startsWith(part)
StartsWith(text, part) ==
    Len(part) <= Len(text) /\ SubSeq(text, 1, Len(part)) = part

\* levenshteinDistance: matrix[i][j] for the first j characters of str1 and
\* the first i of str2
RECURSIVE LevenshteinCell(_, _, _, _)
LevenshteinCell(str1, str2, i, j) ==
    IF i = 0 THEN j
    ELSE IF j = 0 THEN i
    ELSE IF str2[i] = str1[j] THEN LevenshteinCell(str1, str2, i - 1, j - 1)
    ELSE Min(LevenshteinCell(str1, str2, i - 1, j - 1) + 1,
             Min(LevenshteinCell(str1, str2, i, j - 1) + 1,
                 LevenshteinCell(str1, str2, i - 1, j) + 1))

LevenshteinDistance(str1, str2) == LevenshteinCell(str1, str2, Len(str2), Len(str1))

\* calculateStringSimilarity(str1, str2) * 40, in thousandths
SimilarityBonus(str1, str2) ==
    LET longer == IF Len(str1) > Len(str2) THEN str1 ELSE str2
        shorter == IF Len(str1) > Len(str2) THEN str2 ELSE str1
    IN  IF Len(longer) = 0 THEN 40000
        ELSE ((Len(longer) - LevenshteinDistance(longer, shorter)) * 40000) \div Len(longer)

\* description?.toLowerCase() || '': the argument is <<>> when it is undefined
\* and <<text>> otherwise
DescriptionLower(description) ==
    IF description = <<>> THEN <<>> ELSE ToLowerCase(description[1])

\* calculateRelevanceScore(query, title, description)
CalculateRelevanceScore(query, title, description) ==
    LET queryLower == ToLowerCase(query)
        titleLower == ToLowerCase(title)
        descLower == DescriptionLower(description)
        titleScore == IF titleLower = queryLower THEN 100000
                      ELSE IF IncludesText(titleLower, queryLower) THEN 80000
                      ELSE IF StartsWith(titleLower, queryLower) THEN 60000
                      ELSE 0
        descScore == IF IncludesText(descLower, queryLower) THEN 20000 ELSE 0
    IN  Min(100000, titleScore + descScore + SimilarityBonus(queryLower, titleLower))

\* the queries, titles and descriptions the scorer is applied to
RelevanceQueries == SeqsUpTo(Letters, MaxQueryLength) \ {<<>>}
RelevanceTitles == SeqsUpTo(Letters, MaxTitleLength)
RelevanceDescriptions == {<<>>, <<<<"b">>>>, <<<<"b", "A">>>>}

\* the scorer applied to the query, the title and the description handed in
ScoreRelevance ==
    /\ lastOp.op = "relevanceInput"
    /\ lastOp' = [op |-> "calculateRelevanceScore", query |-> lastOp.query,
                  title |-> lastOp.title, description |-> lastOp.description,
                  score |-> CalculateRelevanceScore(lastOp.query, lastOp.title,
                                                    lastOp.description)]
    /\ UNCHANGED <<flightVars, preferenceVars, now, isConnected, cache, authVars, contentVars>>

(***************************************************************************)
(* RankingService.getRankingTrends.                                        *)
(***************************************************************************)
\* calculatePreviousPeriod; the last month had monthDays days, the one before
\* it earlierDays
CalculatePreviousPeriod(type, monthDays, earlierDays) ==
    [start |-> CASE type = "daily" -> now - 2 * DAY
                 [] type = "weekly" -> now - 14 * DAY
                 [] type = "monthly" -> now - (monthDays + earlierDays) * DAY
                 [] OTHER -> START_OF_2020,
     end |-> CASE type = "daily" -> now - DAY
               [] type = "weekly" -> now - 7 * DAY
               [] OTHER -> now - monthDays * DAY]

\* _id.toString() of an ObjectId, or of the string a cached ranking holds
IdToString(id) == StringifyValue(id)

\* previousRanking.find(p => p.drama._id.toString() === id): its index, or 0
FindPrevious(previousRanking, id) ==
    IF \E i \in 1..Len(previousRanking) : IdToString(previousRanking[i].drama._id) = id
    THEN CHOOSE i \in 1..Len(previousRanking) :
            /\ IdToString(previousRanking[i].drama._id) = id
            /\ \A j \in 1..(i - 1) : IdToString(previousRanking[j].drama._id) # id
    ELSE 0

\* previousItem ? previousItem.rank : null; null reads as 0
PreviousRank(previousRanking, id) ==
    IF FindPrevious(previousRanking, id) = 0 THEN 0
    ELSE previousRanking[FindPrevious(previousRanking, id)].rank

\* currentRanking.items.map(...): change and isNew of every item
Trends(items, previousRanking) ==
    [i \in 1..Len(items) |->
        LET previousRank == PreviousRank(previousRanking, IdToString(items[i].drama._id))
        IN  [isNew |-> previousRank = 0] @@
            [items[i] EXCEPT !.change = IF previousRank # 0
                                        THEN previousRank - items[i].rank ELSE 0]]

\* getRankingTrends(type, category): getRanking with its default limit, then
\* the ranking of the previous period; no category reads as ""
GetRankingTrends(type, category, monthDays, earlierDays) ==
    LET key == RankingKey(type, category, RANKING_DEFAULT_LIMIT)
        hit == IsReady /\ CacheLive(cache, key)
        period == CalculatePeriod(type, monthDays)
        result == (IF category # "" THEN [category |-> category] ELSE EmptyObject) @@
                  [type |-> type,
                   items |-> CalculateRanking(type, period, category,
                                              RANKING_DEFAULT_LIMIT, FALSE),
                   generatedAt |-> DateOf(now),
                   period |-> [start |-> DateOf(period.start), end |-> DateOf(period.end)]]
        currentRanking == IF hit THEN CacheGet(cache, key) ELSE result
        previousPeriod == CalculatePreviousPeriod(type, monthDays, earlierDays)
        previousRanking == CalculateRanking(type, previousPeriod, category,
                                            RANKING_DEFAULT_LIMIT, FALSE)
        trends == [currentRanking EXCEPT !.items = Trends(@, previousRanking)]
    IN  /\ cache' = IF IsReady /\ ~hit
                    THEN CacheSet(cache, key, StringifyRanking(result), RANKING_CACHE_TTL)
                    ELSE cache
        /\ lastOp' = [op |-> "getRankingTrends", type |-> type, category |-> category,
                      status |-> 200, fromCache |-> hit, previousPeriod |-> previousPeriod,
                      body |-> StringifyRanking(trends)]
        /\ UNCHANGED <<flightVars, preferenceVars, now, isConnected, authVars, contentVars>>

\* a day passes
DayTick ==
    /\ now + DAY <= MaxTrendDays * DAY
    /\ now' = now + DAY
    /\ cache' = Expire(cache, now + DAY)
    /\ lastOp' = [op |-> "tick"]
    /\ UNCHANGED <<flightVars, preferenceVars, isConnected, authVars, contentVars>>

(***************************************************************************)
(* RedisRateLimiter: a sorted set of request times per identifier.  The    *)
(* instance modelled admits LimiterMax requests per LIMITER_WINDOW         *)
(* seconds.  A call is taken in the steps between its awaits.              *)
(***************************************************************************)
LIMITER_WINDOW == 15 * 60

\* later than every time the clock reaches: a key without a time to live
NoExpiry == MaxTime + LIMITER_WINDOW + 1

\* `${this.prefix}:${identifier}`
LimiterKey(identifier) == [ns |-> "api:", identifier |-> identifier]

\* ZREMRANGEBYSCORE key min max; a sorted set left empty is deleted
ZRemRangeByScore(c, key, min, max) ==
    IF ~CacheLive(c, key) THEN c
    ELSE LET kept == {m \in c[key].val : ~(min <= m.score /\ m.score <= max)}
         IN  IF kept = {} THEN CacheDel(c, key) ELSE [c EXCEPT ![key].val = kept]

\* ZCARD key
ZCard(c, key) == IF CacheLive(c, key) THEN Cardinality(c[key].val) ELSE 0

\* ZADD key score member; a new key has no time to live
ZAdd(c, key, member) ==
    IF CacheLive(c, key) THEN [c EXCEPT ![key].val = @ \cup {member}]
    ELSE [x \in (DOMAIN c) \cup {key} |->
             IF x = key THEN [val |-> {member}, exp |-> NoExpiry] ELSE c[x]]

\* EXPIRE key seconds
ExpireKey(c, key, seconds) ==
    IF CacheLive(c, key) THEN [c EXCEPT ![key].exp = now + seconds] ELSE c

\* the request is let through: the answer, and the history of admissions
Admit(identifier, at, ready, remaining) ==
    /\ limiter' = [limiter EXCEPT !.admitted = Append(@, [identifier |-> identifier,
                                                          at |-> at, ready |-> ready])]
    /\ lastOp' = [op |-> "isAllowed", identifier |-> identifier, allowed |-> TRUE,
                  ready |-> ready, remaining |-> remaining]

\* isAllowed(identifier) up to the end of zRemRangeByScore; with Redis not
\* ready the request is let through at once
IsAllowedStart(identifier) ==
    /\ limiter.calls < MaxLimiterCalls
    /\ IF ~IsReady
       THEN /\ Admit(identifier, now, FALSE, LimiterMax)
            /\ limiter'.calls = limiter.calls + 1
            /\ UNCHANGED <<cache, inFlight>>
       ELSE /\ Len(inFlight) < MaxInFlight
            /\ cache' = ZRemRangeByScore(cache, LimiterKey(identifier), 0,
                                         now - LIMITER_WINDOW)
            /\ inFlight' = Append(inFlight, [op |-> "isAllowed", identifier |-> identifier,
                                             pc |-> "zCard", at |-> now,
                                             id |-> limiter.calls + 1, currentRequests |-> 0])
            /\ limiter' = [limiter EXCEPT !.calls = @ + 1]
            /\ lastOp' = [op |-> "await"]
    /\ UNCHANGED <<viewCalls, preferenceVars, now, isConnected, authVars, contentVars>>

\* zCard and the test against maxRequests; a rejected command is caught and
\* the request let through
IsAllowedCard(i) ==
    LET call == inFlight[i]
        currentRequests == ZCard(cache, LimiterKey(call.identifier))
    IN  /\ call.op = "isAllowed" /\ call.pc = "zCard"
        /\ IF ~IsReady
           THEN /\ Admit(call.identifier, call.at, FALSE, LimiterMax)
                /\ inFlight' = Without(inFlight, i)
           ELSE IF currentRequests >= LimiterMax
           THEN /\ lastOp' = [op |-> "isAllowed", identifier |-> call.identifier,
                              allowed |-> FALSE, ready |-> TRUE, remaining |-> 0]
                /\ inFlight' = Without(inFlight, i)
                /\ UNCHANGED limiter
           ELSE /\ inFlight' = [inFlight EXCEPT ![i].pc = "zAdd",
                                                ![i].currentRequests = currentRequests]
                /\ lastOp' = [op |-> "await"]
                /\ UNCHANGED limiter
        /\ UNCHANGED <<viewCalls, preferenceVars, now, isConnected, cache, authVars,
                       contentVars>>

\* zAdd of the request's time
IsAllowedAdd(i) ==
    LET call == inFlight[i]
    IN  /\ call.op = "isAllowed" /\ call.pc = "zAdd"
        /\ IF ~IsReady
           THEN /\ Admit(call.identifier, call.at, FALSE, LimiterMax)
                /\ inFlight' = Without(inFlight, i)
                /\ UNCHANGED cache
           ELSE /\ cache' = ZAdd(cache, LimiterKey(call.identifier),
                                 [score |-> call.at, id |-> call.id])
                /\ inFlight' = [inFlight EXCEPT ![i].pc = "expire"]
                /\ lastOp' = [op |-> "await"]
                /\ UNCHANGED limiter
        /\ UNCHANGED <<viewCalls, preferenceVars, now, isConnected, authVars, contentVars>>

\* expire, and the request is let through
IsAllowedExpire(i) ==
    LET call == inFlight[i]
    IN  /\ call.op = "isAllowed" /\ call.pc = "expire"
        /\ cache' = IF IsReady
                    THEN ExpireKey(cache, LimiterKey(call.identifier), LIMITER_WINDOW)
                    ELSE cache
        /\ Admit(call.identifier, call.at, IsReady,
                 IF IsReady THEN LimiterMax - call.currentRequests - 1 ELSE LimiterMax)
        /\ inFlight' = Without(inFlight, i)
        /\ UNCHANGED <<viewCalls, preferenceVars, now, isConnected, authVars, contentVars>>

(***************************************************************************)
(* Overlapping refreshToken and logout calls: each is taken in the steps   *)
(* between its awaits.                                                     *)
(***************************************************************************)
\* the answer of a refreshToken call that throws
RefreshFailed(tok) ==
    lastOp' = [op |-> "refreshToken", token |-> tok, outcome |-> "failed",
               wasRevoked |-> tok \in revoked]

\* refreshToken up to the end of UserSessionModel.findOne
RefreshTokenFind(tok) ==
    LET i == FindActiveSession(tok)
    IN  /\ IF ~JwtVerify(tok, "refresh", REFRESH_TOKEN_TTL) \/ i = 0
           THEN /\ RefreshFailed(tok)
                /\ UNCHANGED inFlight
           ELSE /\ Len(inFlight) < MaxInFlight
                /\ inFlight' = Append(inFlight, [op |-> "refreshToken", pc |-> "findById",
                                                 token |-> tok, session |-> i])
                /\ lastOp' = [op |-> "await"]
        /\ UNCHANGED <<viewCalls, limiter, preferenceVars, now, isConnected, cache, authVars,
                       contentVars>>

\* User.findById, the new tokens, and the session document changed in memory
RefreshTokenFindUser(k) ==
    LET call == inFlight[k]
        u == call.token.userId
    IN  /\ call.op = "refreshToken" /\ call.pc = "findById"
        /\ IF u \notin UserIds \/ users[u].status # "active"
           THEN /\ RefreshFailed(call.token)
                /\ inFlight' = Without(inFlight, k)
                /\ UNCHANGED nextTokenId
           ELSE /\ nextTokenId <= MaxStepTokens
                /\ inFlight' = [inFlight EXCEPT ![k] =
                                   [op |-> "refreshToken", pc |-> "save",
                                    token |-> call.token, session |-> call.session,
                                    newAccessToken |-> GenerateAuthToken(u),
                                    newRefreshToken |-> GenerateRefreshToken(u),
                                    expiresAt |-> now + SESSION_TTL]]
                /\ nextTokenId' = nextTokenId + 1
                /\ lastOp' = [op |-> "await"]
        /\ UNCHANGED <<viewCalls, limiter, preferenceVars, now, isConnected, cache, contentVars,
                       users, sessions, watched, failHist, sinceOk, sinceClear, lockedAt,
                       issued, revoked, loggedOut, refreshed, ended>>

\* session.save() writes the two paths that were set, and the call answers
RefreshTokenSave(k) ==
    LET call == inFlight[k]
    IN  /\ call.op = "refreshToken" /\ call.pc = "save"
        /\ sessions' = [sessions EXCEPT ![call.session].refreshToken = call.newRefreshToken,
                                        ![call.session].expiresAt = call.expiresAt]
        /\ issued' = issued \cup {[access |-> call.newAccessToken,
                                   refresh |-> call.newRefreshToken]}
        /\ refreshed' = Append(refreshed, call.token)
        /\ inFlight' = Without(inFlight, k)
        /\ lastOp' = [op |-> "refreshToken", token |-> call.token, outcome |-> "ok",
                      wasRevoked |-> call.token \in revoked,
                      session |-> call.session, newRefreshToken |-> call.newRefreshToken]
        /\ UNCHANGED <<viewCalls, limiter, preferenceVars, now, isConnected, cache, contentVars,
                       users, nextTokenId, watched, failHist, sinceOk, sinceClear, lockedAt,
                       revoked, loggedOut, ended>>

\* logout with Redis ready, up to the end of redis.set
LogoutBlacklist(tok) ==
    /\ IsReady
    /\ Len(inFlight) < MaxInFlight
    /\ cache' = CacheSet(cache, BlacklistKey(tok), "blacklisted", BLACKLIST_TTL)
    /\ inFlight' = Append(inFlight, [op |-> "logout", token |-> tok, ready |-> TRUE,
                                     held |-> SessionsHolding(tok)])
    /\ lastOp' = [op |-> "await"]
    /\ UNCHANGED <<viewCalls, limiter, preferenceVars, now, isConnected, authVars, contentVars>>

\* logout with Redis not ready: nothing is awaited before updateOne
LogoutNotReady(tok) == ~IsReady /\ Logout(tok)

\* UserSessionModel.updateOne({refreshToken}, {isActive: false}), and the call answers
LogoutUpdate(k) ==
    LET call == inFlight[k]
    IN  /\ call.op = "logout"
        /\ sessions' = DeactivateSession(call.token)
        /\ ended' = ended \cup call.held
        /\ loggedOut' = IF call.ready /\ SessionsHolding(call.token) # {}
                        THEN loggedOut \cup {p.access : p \in {q \in issued : q.refresh = call.token}}
                        ELSE loggedOut
        /\ inFlight' = Without(inFlight, k)
        /\ lastOp' = [op |-> "logout", token |-> call.token, ready |-> call.ready]
        /\ UNCHANGED <<viewCalls, limiter, preferenceVars, now, isConnected, cache, contentVars,
                       users, nextTokenId, watched, failHist, sinceOk, sinceClear, lockedAt,
                       issued, revoked, refreshed>>

(***************************************************************************)
(* Overlapping login calls: each is taken in the steps between its awaits. *)
(***************************************************************************)
\* the answer of a login call, as Login records it
LoginAnswer(e, p, out, ready) ==
    lastOp' = [op |-> "login", email |-> e, password |-> p, outcome |-> out,
               ready |-> ready,
               counter |-> IF FailedLoginKey(e) \in DOMAIN cache
                           THEN cache[FailedLoginKey(e)] ELSE Nil,
               hadFailures |-> CacheLive(cache, FailedLoginKey(e)),
               fiveRecent |-> e = watched /\ FiveRecentFailures,
               fiveSinceOk |-> e = watched /\ sinceOk >= MAX_LOGIN_ATTEMPTS,
               fiveSinceClear |-> e = watched /\ sinceClear >= MAX_LOGIN_ATTEMPTS]

\* history of a login call that has failed on the credentials
FailureCompleted(e, ready, attempts) ==
    /\ failHist' = IF e # watched THEN failHist
                   ELSE IF ready THEN Last5(Append(failHist, now)) ELSE <<>>
    /\ sinceOk' = IF e = watched /\ sinceOk < MAX_LOGIN_ATTEMPTS THEN sinceOk + 1 ELSE sinceOk
    /\ sinceClear' = IF e = watched /\ sinceClear < MAX_LOGIN_ATTEMPTS
                     THEN sinceClear + 1 ELSE sinceClear
    /\ lockedAt' = IF e = watched /\ ready /\ attempts >= MAX_LOGIN_ATTEMPTS
                   THEN now ELSE lockedAt

\* login up to the end of checkLoginAttempts
LoginCheck(e, p) ==
    /\ Len(failHist) + Len(inFlight) < MaxAttemptCalls
    /\ IF LoginAttemptsExceeded(e)
       THEN /\ LoginAnswer(e, p, "locked", IsReady)
            /\ UNCHANGED inFlight
       ELSE /\ Len(inFlight) < MaxInFlight
            /\ inFlight' = Append(inFlight, [op |-> "login", pc |-> "findUser", email |-> e,
                                             password |-> p, current |-> <<>>])
            /\ lastOp' = [op |-> "await"]
    /\ UNCHANGED <<viewCalls, limiter, preferenceVars, now, isConnected, cache, authVars,
                   contentVars>>

\* User.findByEmailWithPassword and the status test
LoginFindUser(k) ==
    LET call == inFlight[k]
        u == FindByEmail(call.email)
    IN  /\ call.op = "login" /\ call.pc = "findUser"
        /\ IF u # NoUser /\ users[u].status # "active"
           THEN /\ LoginAnswer(call.email, call.password, "disabled", IsReady)
                /\ inFlight' = Without(inFlight, k)
           ELSE /\ inFlight' = [inFlight EXCEPT ![k].pc = IF u = NoUser THEN "recordGet"
                                                          ELSE "compare"]
                /\ lastOp' = [op |-> "await"]
        /\ UNCHANGED <<viewCalls, limiter, preferenceVars, now, isConnected, cache, authVars,
                       contentVars>>

\* user.comparePassword; with the right password the rest of login follows:
\* clearFailedLogins, the tokens, the session
LoginCompare(k) ==
    LET call == inFlight[k]
        e == call.email
        u == FindByEmail(e)
        at == GenerateAuthToken(u)
        rt == GenerateRefreshToken(u)
    IN  /\ call.op = "login" /\ call.pc = "compare"
        /\ IF ~ComparePassword(u, call.password)
           THEN /\ inFlight' = [inFlight EXCEPT ![k].pc = "recordGet"]
                /\ lastOp' = [op |-> "await"]
                /\ UNCHANGED <<cache, sessions, nextTokenId, issued, failHist, sinceOk,
                               sinceClear>>
           ELSE /\ nextTokenId <= MaxTokens
                /\ cache' = ClearFailedLogins(e)
                /\ sessions' = Append(sessions, NewSession(u, rt))
                /\ nextTokenId' = nextTokenId + 1
                /\ issued' = issued \cup {[access |-> at, refresh |-> rt]}
                /\ failHist' = IF e = watched THEN <<>> ELSE failHist
                /\ sinceOk' = IF e = watched THEN 0 ELSE sinceOk
                /\ sinceClear' = IF e = watched /\ IsReady THEN 0 ELSE sinceClear
                /\ inFlight' = Without(inFlight, k)
                /\ LoginAnswer(e, call.password, "ok", IsReady)
        /\ UNCHANGED <<viewCalls, limiter, preferenceVars, now, isConnected, contentVars,
                       users, watched, lockedAt, revoked, loggedOut, refreshed, ended>>

\* recordFailedLogin up to the end of redis.get; with Redis not ready it
\* returns and login throws
LoginRecordGet(k) ==
    LET call == inFlight[k]
        key == FailedLoginKey(call.email)
    IN  /\ call.op = "login" /\ call.pc = "recordGet"
        /\ IF ~IsReady
           THEN /\ FailureCompleted(call.email, FALSE, 0)
                /\ LoginAnswer(call.email, call.password, "badcred", FALSE)
                /\ inFlight' = Without(inFlight, k)
           ELSE /\ inFlight' = [inFlight EXCEPT
                                   ![k].pc = "recordSet",
                                   ![k].current = IF CacheLive(cache, key)
                                                  THEN <<CacheGet(cache, key)>> ELSE <<>>]
                /\ lastOp' = [op |-> "await"]
                /\ UNCHANGED <<failHist, sinceOk, sinceClear, lockedAt>>
        /\ UNCHANGED <<viewCalls, limiter, preferenceVars, now, isConnected, cache, contentVars,
                       users, sessions, nextTokenId, watched, issued, revoked, loggedOut,
                       refreshed, ended>>

\* redis.set of current + 1, and login throws
LoginRecordSet(k) ==
    LET call == inFlight[k]
        attempts == IF call.current # <<>> /\ Len(call.current[1]) > 0
                    THEN ParseInt(call.current[1]) + 1 ELSE 1
    IN  /\ call.op = "login" /\ call.pc = "recordSet"
        /\ cache' = IF IsReady
                    THEN CacheSet(cache, FailedLoginKey(call.email), NumToString(attempts),
                                  LOCKOUT_DURATION)
                    ELSE cache
        /\ FailureCompleted(call.email, IsReady, attempts)
        /\ LoginAnswer(call.email, call.password, "badcred", IsReady)
        /\ inFlight' = Without(inFlight, k)
        /\ UNCHANGED <<viewCalls, limiter, preferenceVars, now, isConnected, contentVars,
                       users, sessions, nextTokenId, watched, issued, revoked, loggedOut,
                       refreshed, ended>>

(***************************************************************************)
(* The state after construction.                                           *)
(***************************************************************************)
InitCommon ==
    /\ now = 0
    /\ isConnected = TRUE
    /\ cache = EmptyCache
    /\ lastOp = [op |-> "init"]
    /\ preferences = EmptyObject
    /\ preferenceCalls = 0
    /\ inFlight = <<>>
    /\ limiter = [calls |-> 0, admitted |-> <<>>]
    /\ viewCalls = [d \in DramaIds |-> 0]

InitAuth ==
    /\ users = InitUsers
    /\ sessions = <<>>
    /\ nextTokenId = 1
    /\ watched \in {"a@x", "n@x"}
    /\ failHist = <<>>
    /\ sinceOk = 0
    /\ sinceClear = 0
    /\ lockedAt = -1
    /\ issued = {}
    /\ revoked = {}
    /\ loggedOut = {}
    /\ refreshed = <<>>
    /\ ended = {}

InitCategories ==
    /\ categories = {[id |-> 1, name |-> "romance", isActive |-> TRUE, sortOrder |-> 0],
                     [id |-> 2, name |-> "action", isActive |-> TRUE, sortOrder |-> 1]}
    /\ nextCatId = 3

InitContent ==
    /\ InitCategories
    /\ dramas = FixtureDramas
    /\ listCalls = [call |-> None, miss |-> None]

Init == InitCommon /\ InitAuth /\ InitContent

(***************************************************************************)
(* SpecLogin: login attempts and the lockout counter.                      *)
(***************************************************************************)
\* Logins are tried for the watched email and for the banned user's.
NextLogin ==
    \/ \E e \in {watched, "b@x"}, p \in Passwords : Login(e, p)
    \/ Tick
    \/ RedisDown
    \/ RedisUp

SpecLogin == Init /\ [][NextLogin]_vars

(***************************************************************************)
(* SpecSession: sessions, refresh, logout, token verification.             *)
(***************************************************************************)
NextSession ==
    \/ \E u \in UserIds : Login(users[u].email, "right")
    \/ \E tok \in RefreshTokens : RefreshToken(tok)
    \/ \E tok \in RefreshTokens : Logout(tok)
    \/ \E u \in UserIds : LogoutAllDevices(u)
    \/ \E tok \in AccessTokens : VerifyAccessToken(tok)
    \/ RedisDown
    \/ RedisUp

InitSession == Init /\ watched = "a@x"

SpecSession == InitSession /\ [][NextSession]_vars

(***************************************************************************)
(* SpecBan: the status of the first user is changed while the first and    *)
(* the third user log in, refresh and present access tokens.               *)
(***************************************************************************)
NextBan ==
    \/ \E u \in {1, 3} : Login(users[u].email, "right")
    \/ \E tok \in RefreshTokens : RefreshToken(tok)
    \/ \E tok \in AccessTokens : VerifyAccessToken(tok)
    \/ \E id \in {1, 4}, status \in UserStatuses : UpdateUserStatus(id, status)

SpecBan == InitSession /\ [][NextBan]_vars

(***************************************************************************)
(* SpecCategory: the category collection and its cache.                    *)
(***************************************************************************)
\* Categories are read through the active list.  Every category can be
\* deleted; the first is updated and re-ordered, the second is toggled.
NextCategory ==
    \/ GetActiveCategories
    \/ \E n \in CategoryNames : CreateCategory(n, 0, TRUE)
    \/ \E id \in {1, MaxCategories + 1}, u \in UpdateDatas : UpdateCategory(id, u)
    \/ \E id \in CategoryIds : DeleteCategory(id)
    \/ \E id \in {2, MaxCategories + 1} : ToggleCategoryStatus(id)
    \/ \E so \in SortOrders : UpdateCategorySortOrder(1, so)
    \/ RedisDown
    \/ RedisUp

SpecCategory == InitSession /\ [][NextCategory]_vars

(***************************************************************************)
(* SpecList: the drama list and detail reads, their cache, and views.      *)
(***************************************************************************)
NextList ==
    \/ \E req \in ListRequests, fault \in Faults : GetDramas(req, fault)
    \/ \E id \in {1, 4}, fault \in Faults : GetDramaById(id, fault)
    \/ \E id \in {1, 4} : IncrementViewCount(id)
    \/ ListTick
    \/ RedisDown
    \/ RedisUp

SpecList == InitSession /\ [][NextList]_vars

(***************************************************************************)
(* SpecRank: the rankings, their cache, and views.                         *)
(***************************************************************************)
NextRank ==
    \/ \E req \in RankingRequests, monthDays \in {28, 31}, populateFails \in BOOLEAN :
          GetRanking(req, monthDays, populateFails)
    \/ \E id \in {1, 4} : IncrementViewCount(id)
    \/ RedisDown
    \/ RedisUp

SpecRank == InitSession /\ [][NextRank]_vars

(***************************************************************************)
(* SpecTrends: ranking trends, views of the first drama, and a day that    *)
(* passes.                                                                 *)
(***************************************************************************)
TrendRequests ==
    {[type |-> "daily", category |-> ""],
     [type |-> "monthly", category |-> "romance"],
     [type |-> "all_time", category |-> ""]}

NextTrends ==
    \/ \E req \in TrendRequests, days \in {<<28, 31>>, <<31, 30>>} :
          GetRankingTrends(req.type, req.category, days[1], days[2])
    \/ \E id \in {1, 4} : IncrementViewCount(id)
    \/ DayTick

SpecTrends == InitSession /\ [][NextTrends]_vars

(***************************************************************************)
(* SpecLimiter: isAllowed calls of one identifier that overlap, while time *)
(* passes and Redis goes down and comes back.                              *)
(***************************************************************************)
\* a call takes far less than a step of the clock
LimiterTick == Len(inFlight) = 0 /\ Tick

NextLimiter ==
    \/ IsAllowedStart("1.2.3.4")
    \/ \E i \in 1..Len(inFlight) : IsAllowedCard(i)
    \/ \E i \in 1..Len(inFlight) : IsAllowedAdd(i)
    \/ \E i \in 1..Len(inFlight) : IsAllowedExpire(i)
    \/ LimiterTick
    \/ RedisDown
    \/ RedisUp

SpecLimiter == InitSession /\ [][NextLimiter]_vars

(***************************************************************************)
(* SpecTokens: logins, and refreshToken and logout calls that overlap.     *)
(***************************************************************************)
NextTokens ==
    \/ Login("a@x", "right")
    \/ \E tok \in RefreshTokens : RefreshTokenFind(tok)
    \/ \E k \in 1..Len(inFlight) : RefreshTokenFindUser(k)
    \/ \E k \in 1..Len(inFlight) : RefreshTokenSave(k)
    \/ \E tok \in RefreshTokens : LogoutBlacklist(tok)
    \/ \E k \in 1..Len(inFlight) : LogoutUpdate(k)
    \/ \E tok \in RefreshTokens : LogoutNotReady(tok)
    \/ RedisDown
    \/ RedisUp

SpecTokens == InitSession /\ [][NextTokens]_vars

(***************************************************************************)
(* SpecAttempts: login calls for the watched email that overlap, with the  *)
(* cache up, while time passes between the calls.                          *)
(***************************************************************************)
\* a call takes far less than a step of the clock
AttemptsTick == Len(inFlight) = 0 /\ Tick

NextAttempts ==
    \/ \E p \in Passwords : LoginCheck(watched, p)
    \/ \E k \in 1..Len(inFlight) : LoginFindUser(k)
    \/ \E k \in 1..Len(inFlight) : LoginCompare(k)
    \/ \E k \in 1..Len(inFlight) : LoginRecordGet(k)
    \/ \E k \in 1..Len(inFlight) : LoginRecordSet(k)
    \/ AttemptsTick

SpecAttempts == InitSession /\ [][NextAttempts]_vars

(***************************************************************************)
(* SpecReco: hot and new recommendations, their cache, and views.          *)
(***************************************************************************)
NextReco ==
    \/ \E req \in RecommendationRequests, populateFails \in BOOLEAN :
          GetRecommendations(req, populateFails)
    \/ \E id \in {1, 4} : IncrementViewCount(id)
    \/ RedisDown
    \/ RedisUp

SpecReco == InitSession /\ [][NextReco]_vars

(***************************************************************************)
(* SpecSimilarity: the similarity scorer on seeds and candidates.          *)
(***************************************************************************)
\* a seed and a candidate are handed in at the start
InitSimilarity ==
    /\ now = 0
    /\ isConnected = TRUE
    /\ cache = EmptyCache
    /\ lastOp \in [op : {"similarityInput"}, base : SeedDramas, target : CandidateDramas]
    /\ preferences = EmptyObject
    /\ preferenceCalls = 0
    /\ inFlight = <<>>
    /\ limiter = [calls |-> 0, admitted |-> <<>>]
    /\ viewCalls = [d \in DramaIds |-> 0]
    /\ InitAuth
    /\ watched = "a@x"
    /\ InitContent

NextSimilarity == ScoreSimilarity

SpecSimilarity == InitSimilarity /\ [][NextSimilarity]_vars

(***************************************************************************)
(* SpecRelevance: the relevance scorer applied to a query, a title and a   *)
(* description.                                                            *)
(***************************************************************************)
InitRelevance ==
    /\ now = 0
    /\ isConnected = TRUE
    /\ cache = EmptyCache
    /\ lastOp \in [op : {"relevanceInput"}, query : RelevanceQueries,
                    title : RelevanceTitles, description : RelevanceDescriptions]
    /\ preferences = EmptyObject
    /\ preferenceCalls = 0
    /\ inFlight = <<>>
    /\ limiter = [calls |-> 0, admitted |-> <<>>]
    /\ viewCalls = [d \in DramaIds |-> 0]
    /\ InitAuth
    /\ watched = "a@x"
    /\ InitContent

NextRelevance == ScoreRelevance

SpecRelevance == InitRelevance /\ [][NextRelevance]_vars

(***************************************************************************)
(* SpecPreference: the preference of user 1, who has none yet or has liked *)
(* the dramas 1 to SeedDramaCount, and of user 2, who has none.            *)
(***************************************************************************)
InitPreference ==
    /\ now = 0
    /\ isConnected = TRUE
    /\ cache = EmptyCache
    /\ lastOp = [op |-> "init"]
    /\ preferences \in {EmptyObject, 1 :> LikedUpTo(SeedDramaCount)}
    /\ preferenceCalls = 0
    /\ inFlight = <<>>
    /\ limiter = [calls |-> 0, admitted |-> <<>>]
    /\ viewCalls = [d \in DramaIds |-> 0]
    /\ InitAuth
    /\ watched = "a@x"
    /\ InitContent

NextPreference ==
    \E userId \in {1, 2}, drama \in PreferenceDramas, action \in PreferenceActions :
        UpdatePreferenceFromDrama(userId, drama, action)

SpecPreference == InitPreference /\ [][NextPreference]_vars

(***************************************************************************)
(* SpecViews: views and detail reads of drama 1 that overlap, each taken   *)
(* in its two steps, and detail reads that run without interruption.       *)
(***************************************************************************)
NextViews ==
    \/ \E id \in {1, 4} : IncrementViewCountUpdate(id)
    \/ \E i \in 1..Len(inFlight) : IncrementViewCountClear(i)
    \/ GetDramaByIdFind(1)
    \/ \E i \in 1..Len(inFlight) : GetDramaByIdStore(i)
    \/ GetDramaById(1, "none")
    \/ RedisDown
    \/ RedisUp

SpecViews == InitSession /\ [][NextViews]_vars

(***************************************************************************)
(* SpecCategoryWrites: creates and renames of categories and reads of the  *)
(* active list that overlap, each taken in its two steps, with reads that  *)
(* run without interruption and deletes of the newest category.            *)
(***************************************************************************)
NextCategoryWrites ==
    \/ \E n \in CategoryNames : CreateCategorySave(n, 0, TRUE)
    \/ \E id \in {1, MaxCategories}, n \in CategoryNames : UpdateCategorySave(id, n)
    \/ \E i \in 1..Len(inFlight) : CategoryWriteClear(i)
    \/ DeleteCategory(MaxCategories)
    \/ GetActiveCategories
    \/ GetActiveCategoriesFind
    \/ \E i \in 1..Len(inFlight) : GetActiveCategoriesStore(i)

SpecCategoryWrites == InitSession /\ [][NextCategoryWrites]_vars

(***************************************************************************)
(* Login lockout.                                                          *)
(***************************************************************************)
\* C1: with the cache available, once the five latest login calls for an email
\* each failed on an unknown email or a wrong password, with no successful
\* login in between and all less than the lockout duration ago, the next login
\* call for that email is rejected with the lockout error, whatever its password.
C1_LockoutAfterFive ==
    (lastOp.op = "login" /\ lastOp.ready /\ lastOp.fiveRecent)
        => lastOp.outcome = "locked"

\* a sixth call with the right password of an active user is locked out
C1_Witness ==
    /\ lastOp.op = "login"
    /\ lastOp.ready
    /\ lastOp.fiveRecent
    /\ lastOp.email = "a@x"
    /\ lastOp.password = "right"
    /\ lastOp.outcome = "locked"

\* C2 as stated: every successful login deletes the failed-login counter of
\* its email, and an email is locked out only after five failures since its
\* last successful login.
C2_AnySuccessResets ==
    /\ (lastOp.op = "login" /\ lastOp.outcome = "ok")
          => ~CacheLive(cache, FailedLoginKey(lastOp.email))
    /\ (lastOp.op = "login" /\ lastOp.outcome = "locked") => lastOp.fiveSinceOk

\* C2 amended: a successful login made while the cache is available deletes the
\* failed-login counter of its email, and an email is locked out only after
\* five failures since its last successful login made with the cache available.
C2_SuccessWithCacheResets ==
    /\ (lastOp.op = "login" /\ lastOp.outcome = "ok" /\ lastOp.ready)
          => ~CacheLive(cache, FailedLoginKey(lastOp.email))
    /\ (lastOp.op = "login" /\ lastOp.outcome = "locked") => lastOp.fiveSinceClear

\* a successful login that found a live counter (fewer than five failures) and deleted it
C2_Witness ==
    /\ lastOp.op = "login"
    /\ lastOp.outcome = "ok"
    /\ lastOp.ready
    /\ lastOp.hadFailures
    /\ ~CacheLive(cache, FailedLoginKey(lastOp.email))

\* C22: a login rejected because of the lockout leaves the counter and its
\* expiry as they were; a counter of five or more expires 15 minutes after
\* the fifth failure; and from then on a login with the right password of the
\* active user succeeds.
C22_LockoutEndsAfterFixedDuration ==
    /\ (lastOp.op = "login" /\ lastOp.outcome = "locked") =>
          /\ FailedLoginKey(lastOp.email) \in DOMAIN cache
          /\ cache[FailedLoginKey(lastOp.email)] = lastOp.counter
    /\ (CacheLive(cache, FailedLoginKey(watched))
            /\ ParseInt(cache[FailedLoginKey(watched)].val) >= MAX_LOGIN_ATTEMPTS) =>
          /\ lockedAt >= 0
          /\ cache[FailedLoginKey(watched)].exp = lockedAt + LOCKOUT_DURATION
    /\ (lastOp.op = "login" /\ lastOp.email = watched
            /\ FindByEmail(watched) # NoUser
            /\ users[FindByEmail(watched)].status = "active"
            /\ ComparePassword(FindByEmail(watched), lastOp.password)
            /\ lockedAt >= 0 /\ now >= lockedAt + LOCKOUT_DURATION) =>
          lastOp.outcome = "ok"

\* the email was locked out, logins were rejected during the lockout, and the
\* login made 15 minutes after the fifth failure succeeds
C22_Witness ==
    /\ lastOp.op = "login"
    /\ lastOp.email = watched
    /\ watched = "a@x"
    /\ lastOp.ready
    /\ lockedAt >= 0
    /\ now >= lockedAt + LOCKOUT_DURATION
    /\ lastOp.outcome = "ok"

(***************************************************************************)
(* Banned and inactive users.                                              *)
(***************************************************************************)
\* C23: while a user's status is not active, none of the user's sessions is
\* active, verifyAccessToken with a token of the user returns no user,
\* refreshToken with a token of the user fails and a login of the user is
\* rejected.
C23_BanEndsAllAccess ==
    /\ \A u \in UserIds : users[u].status # "active" =>
          \A i \in 1..Len(sessions) : sessions[i].userId = u => ~sessions[i].isActive
    /\ (lastOp.op = "verifyAccessToken" /\ users[lastOp.token.userId].status # "active")
          => lastOp.result = NoUser
    /\ (lastOp.op = "refreshToken" /\ users[lastOp.token.userId].status # "active")
          => lastOp.outcome = "failed"
    /\ (lastOp.op = "login" /\ FindByEmail(lastOp.email) # NoUser
            /\ users[FindByEmail(lastOp.email)].status # "active")
          => lastOp.outcome # "ok"

\* a user with two active sessions was set to inactive, and a refresh token
\* issued to the user before that has been refused
C23_Witness ==
    /\ users[1].status = "inactive"
    /\ Len(sessions) = 2
    /\ \A i \in 1..2 : sessions[i].userId = 1 /\ ~sessions[i].isActive
    /\ lastOp.op = "refreshToken"
    /\ lastOp.token.userId = 1
    /\ lastOp.outcome = "failed"

(***************************************************************************)
(* Sessions and tokens.                                                    *)
(***************************************************************************)
\* C6: after logoutAllDevices(userId) no session of that user is active, and a
\* refreshToken call with a refresh token issued to that user before the
\* logout-all fails.
C6_LogoutAllInvalidates ==
    /\ lastOp.op = "logoutAllDevices"
          => \A i \in 1..Len(sessions) :
                sessions[i].userId = lastOp.userId => ~sessions[i].isActive
    /\ (lastOp.op = "refreshToken" /\ lastOp.wasRevoked) => lastOp.outcome = "failed"

\* a refresh with the current token of a session that logout-all deactivated
C6_Witness ==
    /\ lastOp.op = "refreshToken"
    /\ lastOp.wasRevoked
    /\ lastOp.outcome = "failed"
    /\ \E i \in 1..Len(sessions) : sessions[i].refreshToken = lastOp.token

\* C7: after a logout of a login session with the cache available,
\* verifyAccessToken rejects the access token issued for that login.
C7_LogoutBlacklistsAccessToken ==
    (lastOp.op = "verifyAccessToken" /\ lastOp.ready /\ lastOp.wasLoggedOut)
        => lastOp.result = NoUser

(***************************************************************************)
(* Deleting a referenced category.                                         *)
(***************************************************************************)
\* C3: a delete of a category whose name at least one drama references is
\* answered with status 409, and leaves the categories, the dramas and the
\* category cache entries as they were.
C3_ReferencedDeleteConflict ==
    (lastOp.op = "deleteCategory" /\ lastOp.referenced) =>
        /\ lastOp.status = 409
        /\ categories = lastOp.before.categories
        /\ dramas = lastOp.before.dramas
        /\ \A k \in CategoryCacheKeys :
              /\ CacheLive(cache, k) = CacheLive(lastOp.before.cache, k)
              /\ CacheLive(cache, k) => cache[k] = lastOp.before.cache[k]

\* C14: category names are unique at all times; a create with a name another
\* category uses, or a rename to such a name, is answered 409 and leaves the
\* stored categories as they were, also when such requests overlap.
C14_CategoryNamesUnique ==
    /\ \A a, b \in categories : a.name = b.name => a = b
    /\ (lastOp.op \in {"createCategory", "updateCategory"} /\ lastOp.taken) =>
          /\ lastOp.status = 409
          /\ categories = lastOp.before

\* a create is refused because of a category whose own create, of the same
\* name, has saved and not answered yet
C14_Witness ==
    /\ lastOp.op = "createCategory"
    /\ lastOp.status = 409
    /\ lastOp.taken
    /\ \E i \in 1..Len(inFlight) :
          inFlight[i].op = "createCategory" /\ inFlight[i].name = lastOp.name

\* C19: after a category write has completed successfully with the cache
\* available, the active-list, full-list and stats keys are absent, and a
\* getActiveCategories call that starts when every write has completed
\* returns what the store holds.  A call answered from the cache started
\* after every step taken before it.
C19_CategoryWritesVisible ==
    /\ (lastOp.op \in {"createCategory", "updateCategory", "deleteCategory"}
            /\ lastOp.status \in {200, 201} /\ IsReady) =>
          \A k \in CategoryCacheKeys : ~CacheLive(cache, k)
    /\ (lastOp.op = "getActiveCategories" /\ lastOp.fromCache
            /\ \A i \in 1..Len(inFlight) :
                  inFlight[i].op \notin {"createCategory", "updateCategory"}) =>
          lastOp.body = StringifyCategories(CategoryDocs({c \in categories : c.isActive}))

(***************************************************************************)
(* The drama list cache.                                                   *)
(***************************************************************************)
\* a getDramas call for the watched request that used the cache and had no
\* cache command rejected
CleanListCall ==
    /\ lastOp.op = "getDramas"
    /\ lastOp.req = WatchedRequest
    /\ lastOp.ready
    /\ lastOp.fault = "none"

C12_PageOfMatchingDramas ==
    (lastOp.op = "getDramas" /\ lastOp.status = 200) =>
        LET filters == ControllerFilters(lastOp.req)
            query == BuildQuery(filters)
            items == FindDramas(query, BuildSort(filters),
                                (filters.page - 1) * filters.limit, filters.limit)
            total == CountDramas(query)
        IN  /\ lastOp.body.dramas = [i \in 1..Len(items) |-> StringifyDrama(items[i])]
            /\ Len(lastOp.body.dramas) <= filters.limit
            /\ lastOp.body.pagination.total = total
            /\ lastOp.body.pagination.pages = Ceil(total, filters.limit)

\* a drama satisfies every filter the request gives
SatisfiesSupplied(dr, req) ==
    /\ Has(req, "category") => dr.category = req.category
    /\ Has(req, "isHot") => dr.isHot = (req.isHot = "true")
    /\ Has(req, "isNew") => dr.isNewDrama = (req.isNew = "true")

\* C16: the drama list endpoint returns exactly the dramas that satisfy every
\* filter the client supplied and applies no constraint for a filter the
\* client omitted; the requests here fit on their first page.
C16_OnlySuppliedFiltersApply ==
    (lastOp.op = "getDramas" /\ lastOp.status = 200) =>
        LET wanted == {d \in DOMAIN dramas : SatisfiesSupplied(dramas[d], lastOp.req)}
        IN  /\ lastOp.body.pagination.total = Cardinality(wanted)
            /\ {lastOp.body.dramas[i]._id : i \in 1..Len(lastOp.body.dramas)}
                  = {StringifyValue(ObjectId(d)) : d \in wanted}

\* C17: after incrementViewCount(id) has completed with the cache available,
\* no drama-list, hot-list or trending-list cache entry written before it
\* remains in the cache.
C17_ViewClearsListCaches ==
    (lastOp.op = "incrementViewCount" /\ lastOp.ready) =>
        \A k \in DOMAIN cache :
            k.ns \in {"drama:list:", "drama:hot:", "drama:trending:"} => ~CacheLive(cache, k)

(***************************************************************************)
(* Cache failures.                                                         *)
(***************************************************************************)
\* C5: a cached read made while the cache is disconnected, or during which a
\* cache get or set fails, still completes and returns what the store holds.
C5_CacheFailureNeverFailsRead ==
    (lastOp.op \in {"getDramas", "getDramaById"}
        /\ (~lastOp.ready \/ lastOp.fault # "none")) =>
            /\ lastOp.status # 500
            /\ lastOp.body = lastOp.fresh

(***************************************************************************)
(* Rankings.                                                               *)
(***************************************************************************)
\* C8: the items getRanking returns are in non-increasing order of score,
\* their ranks are 1, 2, ..., n in list order, and n is at most the limit.
C8_RankingSortedRankedLimited ==
    lastOp.op = "getRanking" =>
        LET items == lastOp.body.items
            n == Len(items)
        IN  /\ \A i \in 1..(n - 1) : items[i].score >= items[i + 1].score
            /\ \A i \in 1..n : items[i].rank = i
            /\ n <= lastOp.limit

(***************************************************************************)
(* Hot recommendations.                                                    *)
(***************************************************************************)
\* C9: every item returned for a recommendation request of type hot is a
\* drama whose hot flag is set.
C9_HotItemsAreHot ==
    (lastOp.op = "getRecommendations" /\ lastOp.req.type = "hot") =>
        \A i \in 1..Len(lastOp.body.items) : lastOp.body.items[i].drama.isHot

\* C11: the items returned for a recommendation request are in non-increasing
\* order of their score and number at most the requested limit.
C11_ItemsSortedByScoreAndLimited ==
    lastOp.op = "getRecommendations" =>
        LET items == lastOp.body.items
            n == Len(items)
        IN  /\ \A i \in 1..(n - 1) : items[i].score >= items[i + 1].score
            /\ n <= lastOp.limit

\* C20: a recommendation request answered from the cache receives a result
\* that was computed for a request of its own type; the result records the
\* type of the request it was computed for.
C20_CachedResultOfSameRequest ==
    (lastOp.op = "getRecommendations" /\ lastOp.fromCache) =>
        lastOp.body.type = lastOp.req.type

(***************************************************************************)
(* The similarity scorer.                                                  *)
(***************************************************************************)
\* the candidate has the seed's category, all its tags and all its cast
FullOverlap ==
    /\ lastOp.op = "calculateSimilarityScore"
    /\ lastOp.base.category = lastOp.target.category
    /\ \A i \in 1..Len(lastOp.base.tags) : Includes(lastOp.target.tags, lastOp.base.tags[i])
    /\ \A i \in 1..Len(lastOp.base.cast) : Includes(lastOp.target.cast, lastOp.base.cast[i])

\* what the seed's lists and the rating difference add to the 30 points of the
\* category: 10 per tag, 15 per cast member, 20 less 4 per point of difference
OverlapPoints ==
    LET diff == IF lastOp.base.rating >= lastOp.target.rating
                THEN lastOp.base.rating - lastOp.target.rating
                ELSE lastOp.target.rating - lastOp.base.rating
    IN  100 * Len(lastOp.base.tags) + 150 * Len(lastOp.base.cast)
        + (IF 4 * diff < 200 THEN 200 - 4 * diff ELSE 0)

\* C10 as stated: a candidate with the seed's category, all the seed's tags
\* and all the seed's cast scores 100, whatever the sizes of the lists.
C10_FullOverlapScoresMaximum == FullOverlap => lastOp.score = 1000

\* C10 amended: such a candidate scores 100 when the seed's tags, cast and
\* the rating closeness add at least 70 points to the 30 of the category,
\* and 30 plus those points, less than 100, otherwise.
C10_FullOverlapScoresBySize ==
    FullOverlap =>
        /\ OverlapPoints >= 700 => lastOp.score = 1000
        /\ OverlapPoints < 700 => lastOp.score = 300 + OverlapPoints /\ lastOp.score < 1000

\* a fully overlapping candidate whose points exceed the cap
C10_Witness ==
    /\ FullOverlap
    /\ Len(lastOp.base.tags) = 3
    /\ Len(lastOp.base.cast) = 2
    /\ OverlapPoints > 700
    /\ lastOp.score = 1000

(***************************************************************************)
(* Refresh tokens and logout where calls overlap.                          *)
(***************************************************************************)
\* C27: a refresh token is used once: no two refreshToken calls that presented
\* the same token have succeeded, and when a refresh has succeeded the
\* session holds the token it issued and the token it was given finds no
\* active session.
C27_RefreshTokenSingleUse ==
    /\ \A i, j \in 1..Len(refreshed) : i # j => refreshed[i] # refreshed[j]
    /\ (lastOp.op = "refreshToken" /\ lastOp.outcome = "ok" /\ "session" \in DOMAIN lastOp)
           => /\ sessions[lastOp.session].refreshToken = lastOp.newRefreshToken
              /\ FindActiveSession(lastOp.token) = 0

\* C29: once logout(t) has completed, every session that held t when the
\* logout started is inactive, so none of its refresh tokens finds an active
\* session.
C29_LogoutEndsSession ==
    \A i \in ended :
        /\ ~sessions[i].isActive
        /\ FindActiveSession(sessions[i].refreshToken) # i

(***************************************************************************)
(* The login-attempt counter where logins overlap.                         *)
(***************************************************************************)
\* C28: when k login calls for the watched email have failed on the
\* credentials, with the cache up, with no successful login since the first
\* of them and all less than the lockout duration ago, the stored counter is
\* k, and with five such calls the email is locked out.
C28_NoFailedAttemptLost ==
    (Len(failHist) > 0 /\ now - failHist[1] < LOCKOUT_DURATION) =>
        /\ CacheLive(cache, FailedLoginKey(watched))
        /\ ParseInt(CacheGet(cache, FailedLoginKey(watched))) >= Len(failHist)
        /\ Len(failHist) < MAX_LOGIN_ATTEMPTS =>
               ParseInt(CacheGet(cache, FailedLoginKey(watched))) = Len(failHist)
        /\ Len(failHist) = MAX_LOGIN_ATTEMPTS => LoginAttemptsExceeded(watched)

(***************************************************************************)
(* Dramas and the categories they name.                                    *)
(***************************************************************************)
\* C30: every drama's category is the name of a category of the store, after
\* any sequence of category creations, updates (renames among them), status
\* toggles, sort order updates and deletions.
C30_DramaCategoriesExist ==
    \A d \in DOMAIN dramas : \E c \in categories : c.name = dramas[d].category

(***************************************************************************)
(* Rate limiting.                                                          *)
(***************************************************************************)
\* the requests of the identifier let through in the window that ends at t,
\* by calls that found the cache available throughout
AdmittedInWindow(identifier, t) ==
    {i \in 1..Len(limiter.admitted) :
        /\ limiter.admitted[i].identifier = identifier
        /\ limiter.admitted[i].ready
        /\ t - LIMITER_WINDOW < limiter.admitted[i].at
        /\ limiter.admitted[i].at <= t}

\* C26: of the requests of an identifier, at most maxRequests are let through
\* in any window while the cache is available, however the isAllowed calls
\* interleave, and a request made while the cache is unavailable is let
\* through.
C26_AtMostMaxRequestsPerWindow ==
    /\ \A i \in 1..Len(limiter.admitted) :
          Cardinality(AdmittedInWindow(limiter.admitted[i].identifier,
                                       limiter.admitted[i].at)) <= LimiterMax
    /\ (lastOp.op = "isAllowed" /\ ~lastOp.ready) => lastOp.allowed

(***************************************************************************)
(* Ranking trends.                                                         *)
(***************************************************************************)
\* the dramas of the category whose updatedAt lies in the period, best score
\* first, at most 20 of them
RankingOfWindow(type, category, period) ==
    Slice0(SortByScore({d \in DOMAIN dramas :
                            /\ category # "" => dramas[d].category = category
                            /\ period.start <= dramas[d].updatedAt
                            /\ dramas[d].updatedAt <= period.end}, type),
           RANKING_DEFAULT_LIMIT)

\* the rank of the drama with the id in the ranking, 0 when it is not ranked
RankIn(ranking, id) ==
    IF \E i \in 1..Len(ranking) : StringifyValue(ObjectId(ranking[i])) = id
    THEN CHOOSE i \in 1..Len(ranking) : StringifyValue(ObjectId(ranking[i])) = id
    ELSE 0

\* C25: for every item getRankingTrends returns, change is its rank in the
\* ranking of the preceding window minus its current rank and isNew is false
\* when it is ranked in the preceding window, and change is 0 and isNew is true
\* when it is not.
C25_TrendsAgainstPrecedingWindow ==
    lastOp.op = "getRankingTrends" =>
        LET previous == RankingOfWindow(lastOp.type, lastOp.category, lastOp.previousPeriod)
        IN  \A i \in 1..Len(lastOp.body.items) :
                LET item == lastOp.body.items[i]
                    previousRank == RankIn(previous, item.drama._id)
                IN  /\ previousRank > 0 =>
                          item.change = previousRank - item.rank /\ ~item.isNew
                    /\ previousRank = 0 => item.change = 0 /\ item.isNew

(***************************************************************************)
(* Search relevance.                                                       *)
(***************************************************************************)
\* the base score by the kind of title match: the title is the query, starts
\* with it, holds it elsewhere, or does not hold it
StatedTitleScore(query, title) ==
    IF title = query THEN 100000
    ELSE IF StartsWith(title, query) THEN 60000
    ELSE IF IncludesText(title, query) THEN 80000
    ELSE 0

\* C24: the relevance score is, texts compared without regard to case, 100 for
\* a title equal to the query, 60 for a title that starts with it, 80 for a
\* title that holds it elsewhere, plus 20 when the description holds the
\* query, plus the similarity bonus, and at most 100.
C24_ScoreByKindOfTitleMatch ==
    lastOp.op = "calculateRelevanceScore" =>
        LET query == ToLowerCase(lastOp.query)
            title == ToLowerCase(lastOp.title)
        IN  lastOp.score =
                Min(100000,
                    StatedTitleScore(query, title)
                    + (IF IncludesText(DescriptionLower(lastOp.description), query)
                       THEN 20000 ELSE 0)
                    + SimilarityBonus(query, title))

(***************************************************************************)
(* User preferences.                                                       *)
(***************************************************************************)
\* C13: after any sequence of updatePreferenceFromDrama calls for a user, every
\* category, tag and actor weight of the stored preference lies in [0, 1] and
\* the lists hold at most 10 categories, 20 tags and 15 actors.
C13_PreferenceWeightsAndSizesBounded ==
    \A u \in DOMAIN preferences :
        LET p == preferences[u]
        IN  /\ \A i \in 1..Len(p.categories) :
                  p.categories[i].weight >= 0 /\ p.categories[i].weight <= 1000
            /\ \A i \in 1..Len(p.tags) : p.tags[i].weight >= 0 /\ p.tags[i].weight <= 1000
            /\ \A i \in 1..Len(p.actors) :
                  p.actors[i].weight >= 0 /\ p.actors[i].weight <= 1000
            /\ Len(p.categories) <= MAX_CATEGORY_PREFERENCES
            /\ Len(p.tags) <= MAX_TAG_PREFERENCES
            /\ Len(p.actors) <= MAX_ACTOR_PREFERENCES

\* a call that brought an eleventh category, two more tags than twenty and two
\* more actors than fifteen, for a user one of whose actors has reached weight 1
C13_Witness ==
    /\ lastOp.op = "updatePreferenceFromDrama"
    /\ Len(lastOp.before.categories) = MAX_CATEGORY_PREFERENCES
    /\ Len(lastOp.before.tags) = MAX_TAG_PREFERENCES
    /\ Len(lastOp.before.actors) = MAX_ACTOR_PREFERENCES
    /\ Has(lastOp.drama, "category")
    /\ FindIndex(lastOp.before.categories, lastOp.drama.category) = 0
    /\ FindIndex(lastOp.before.tags, lastOp.drama.tags[1]) = 0
    /\ FindIndex(lastOp.before.actors, lastOp.drama.cast[1]) = 0
    /\ Len(preferences[lastOp.userId].categories) = MAX_CATEGORY_PREFERENCES
    /\ Len(preferences[lastOp.userId].tags) = MAX_TAG_PREFERENCES
    /\ Len(preferences[lastOp.userId].actors) = MAX_ACTOR_PREFERENCES
    /\ \E i \in 1..MAX_ACTOR_PREFERENCES : preferences[lastOp.userId].actors[i].weight = 1000

\* the weight the list holds for a name, 0 when it holds none
WeightOf(list, name) ==
    IF FindIndex(list, name) = 0 THEN 0 ELSE list[FindIndex(list, name)].weight

\* the entry of the name, where the list kept one, has the old weight plus the
\* increment, up to 1
BoostedBy(before, after, name, increment) ==
    FindIndex(after, name) > 0 =>
        WeightOf(after, name) = Min(1000, WeightOf(before, name) + increment)

\* C21: after updatePreferenceFromDrama(user, drama, action) the weight of the
\* drama's category, of each of its tags and of each of its cast members is
\* min(1, previous weight + the increment of the action): the action weight
\* for the category, 0.8 of it for a tag, 0.6 of it for a cast member.
C21_WeightsBoostedAdditively ==
    lastOp.op = "updatePreferenceFromDrama" =>
        LET weight == ActionWeights(lastOp.action)
            drama == lastOp.drama
            before == lastOp.before
            after == preferences[lastOp.userId]
        IN  /\ Has(drama, "category") =>
                  BoostedBy(before.categories, after.categories, drama.category, weight)
            /\ Has(drama, "tags") =>
                  \A i \in 1..Len(drama.tags) :
                      BoostedBy(before.tags, after.tags, drama.tags[i], (weight * 8) \div 10)
            /\ Has(drama, "cast") =>
                  \A i \in 1..Len(drama.cast) :
                      BoostedBy(before.actors, after.actors, drama.cast[i],
                                (weight * 6) \div 10)

(***************************************************************************)
(* Views.                                                                  *)
(***************************************************************************)
\* the views of the drama whose store update is done and whose call has not answered
ViewsInFlight(d) ==
    Cardinality({i \in 1..Len(inFlight) :
                    inFlight[i].op = "incrementViewCount" /\ inFlight[i].id = d})

\* every drama's view count has grown by the number of its completed and
\* in-flight views
ViewsCounted ==
    \A d \in DOMAIN dramas :
        dramas[d].viewCount = FixtureDramas[d].viewCount + viewCalls[d] + ViewsInFlight(d)

C18_DetailReadsSeeCompletedViews ==
    (lastOp.op = "getDramaById" /\ lastOp.status = 200 /\ lastOp.viewsBefore > 0) =>
        lastOp.body.viewCount >= FixtureDramas[lastOp.id].viewCount + lastOp.viewsBefore

=============================================================================
